---- MODULE Spec2Model ----
(***************************************************************************)
(* A model of the jaces telemetry pipeline: stream processors writing the  *)
(* signals table, the sync_stream task with its retries, single-signal     *)
(* transition detection, and the day segmenter (generate_events_hdbscan).  *)
(*                                                                         *)
(* Times of day are whole minutes of 2025-05-03 (UTC) in the ingestion     *)
(* part and whole minutes of one local day in the segmenter part.          *)
(* Confidences are whole percents (0.95 is 95).                            *)
(***************************************************************************)
EXTENDS Integers, Sequences, FiniteSets, TLC

VARIABLES
    signals,      \* the signals table: a set of rows
    nextUuid,     \* number of uuid4() values that ended up stored so far
    lastRun,      \* the last processor run: [proc, batch, cfg]
    snap,         \* the signals table as it was after the first run of lastRun
    phase,        \* "idle", "once" (lastRun processed once), "twice"
    runs,         \* number of raw batches processed so far
    prev,         \* the signals table as it was before the last processor run
    micEnabled,   \* the signal_configs the ios_mic stream passes to its processor
    now,              \* the scheduler's clock, in cron periods' units
    last_ingestion_at,\* stream_configs.last_ingestion_at of each stream (NULL: never)
    has_token,        \* sources.oauth_access_token IS NOT NULL, for each stream's source
    queue,            \* sync_stream messages waiting in the broker
    running,          \* sync_stream executions between their two commits
    activities,       \* pipeline_activities rows: [id, stream_id, status]
    enqueued,         \* sync_stream messages sent by the scheduler or by hand so far
    lastDone,         \* what the last finished sync_stream execution did
    levels,             \* timestamps (seconds) of the ios_audio_level rows of signals
    signal_transitions, \* the signal_transitions table, as committed
    nextTransition,     \* number of signal_transitions rows inserted so far
    detections,         \* single-signal detection tasks run so far
    lastDetect,         \* what the last single-signal detection task did
    events,             \* the events table, as committed
    seg,                \* each worker's generate_events_hdbscan session
    segRuns,            \* generate_events_hdbscan tasks started so far
    lastSeg,            \* what the last committed generate_events_hdbscan task did
    hashOf,             \* hash(signal_name) % 100 in the worker processes
    call,               \* a call of a function: its name, its arguments, its result
    tasks,              \* each process_stream_batch task's progress and session
    sources,            \* the OAuth columns of the sources table, by source_name
    lastRefresh         \* what the last task that read the tokens to refresh them did

ingestVars == <<signals, nextUuid, lastRun, snap, phase, runs, prev, micEnabled>>

syncVars == <<now, last_ingestion_at, has_token, queue, running, activities, enqueued,
              lastDone>>

detectVars == <<levels, signal_transitions, nextTransition, detections, lastDetect>>

segVars == <<events, seg, segRuns, lastSeg, hashOf>>

tokenVars == <<sources, lastRefresh>>

vars == <<ingestVars, syncVars, detectVars, segVars, call, tasks, tokenVars>>

notIngest == <<syncVars, detectVars, segVars, call, tasks, tokenVars>>

notSync == <<ingestVars, detectVars, segVars, call, tasks, tokenVars>>

notDetect == <<ingestVars, syncVars, segVars, call, tasks, tokenVars>>

notSeg == <<ingestVars, syncVars, detectVars, call, tasks, tokenVars>>

notCall == <<ingestVars, syncVars, detectVars, segVars, tasks, tokenVars>>

notTokens == <<ingestVars, syncVars, detectVars, segVars, call, tasks>>

\* A call that has not returned yet.
Call(fn, args) == [fn |-> fn, args |-> args, done |-> FALSE, result |-> FALSE]

NoCall == Call("none", <<>>)

CallStart(c) == call = c

----------------------------------------------------------------------------
(* Bounds of the ingestion part *)

MaxBatchLen == 2      \* entries in one raw batch
MaxRuns == 2          \* raw batches processed in one behaviour

----------------------------------------------------------------------------
(* datetime values and their text forms *)

\* A datetime: wall-clock minute of the day, tz-aware or naive, utc offset in minutes.
Dt(wall, aware, off) == [wall |-> wall, aware |-> aware, off |-> off]

Pad2(n) == IF n < 10 THEN "0" \o ToString(n) ELSE ToString(n)

OffsetStr(off) ==
    IF off >= 0
    THEN "+" \o Pad2(off \div 60) \o ":" \o Pad2(off % 60)
    ELSE "-" \o Pad2((0 - off) \div 60) \o ":" \o Pad2((0 - off) % 60)

\* datetime.isoformat(): the wall-clock time followed by the offset of an aware value.
IsoFormat(dt) ==
    "2025-05-03T" \o Pad2(dt.wall \div 60) \o ":" \o Pad2(dt.wall % 60) \o ":00"
        \o (IF dt.aware THEN OffsetStr(dt.off) ELSE "")

\* The value a timestamp column holds for a datetime parameter: the instant in UTC
\* (a naive value is stored as it is).
DbTimestamp(dt) == IF dt.aware THEN dt.wall - dt.off ELSE dt.wall

\* dt.astimezone(utc).replace(tzinfo=None) for an aware value, dt itself otherwise.
ToNaiveUtc(dt) == IF dt.aware THEN Dt(dt.wall - dt.off, FALSE, 0) ELSE dt

\* DataNormalizer.normalize_timestamp on an ISO string with a 'T': a trailing Z becomes
\* +00:00 and fromisoformat keeps whatever offset the string carries (none: naive).
NormalizeTimestamp(t) == Dt(t.wall, t.aware, t.off)

----------------------------------------------------------------------------
(* sources/base/processing/dedup.py *)

\* hashlib.md5(...).hexdigest()[:8], kept symbolic.
Md5Hex8(s) == "md5(" \o s \o ")"

\* "" stands for a key that is absent, None or empty (all falsy in the `or` chain).
ContentKey(data) ==
    IF data.event_id # "" THEN data.event_id
    ELSE IF data.id # "" THEN data.id
    ELSE IF data.uuid # "" THEN data.uuid
    ELSE Md5Hex8(data.title \o ":" \o data.summary \o ":" \o data.value)

DedupData(event_id, id, summary) ==
    [event_id |-> event_id, id |-> id, uuid |-> "", title |-> "",
     summary |-> summary, value |-> ""]

generate_idempotency_key(dedup_strategy, timestamp, data) ==
    IF dedup_strategy = "multiple"
    THEN IsoFormat(timestamp) \o ":" \o ContentKey(data)
    ELSE IsoFormat(timestamp)

----------------------------------------------------------------------------
(* The signals table and its two insert statements *)

Row(id, source, signal, key, ts, value, conf, meta) ==
    [id |-> id, source_name |-> source, signal_name |-> signal,
     idempotency_key |-> key, timestamp |-> ts, signal_value |-> value,
     confidence |-> conf, source_metadata |-> meta]

Conflicts(tab, row) ==
    {r \in tab : /\ r.source_name = row.source_name
                 /\ r.idempotency_key = row.idempotency_key
                 /\ r.signal_name = row.signal_name}

\* A processor's working state: the table and the count of stored uuids.
Db(tab, next) == [tab |-> tab, next |-> next]

\* An INSERT with no conflict clause on a table with no unique index.
InsertPlainUpdate(db, row) ==
    Db(db.tab \cup {[row EXCEPT !.id = db.next + 1]}, db.next + 1)

\* INSERT ... ON CONFLICT (source_name, idempotency_key, signal_name) DO UPDATE SET
\* timestamp, signal_value, confidence, source_metadata (the row keeps its id).
InsertOnConflictUpdate(db, row) ==
    IF Conflicts(db.tab, row) = {}
    THEN Db(db.tab \cup {[row EXCEPT !.id = db.next + 1]}, db.next + 1)
    ELSE Db({IF r \in Conflicts(db.tab, row)
             THEN [r EXCEPT !.timestamp = row.timestamp,
                            !.signal_value = row.signal_value,
                            !.confidence = row.confidence,
                            !.source_metadata = row.source_metadata]
             ELSE r : r \in db.tab},
            db.next)

\* INSERT ... ON CONFLICT (source_name, idempotency_key, signal_name) DO NOTHING.
InsertOnConflictNothing(db, row) ==
    IF Conflicts(db.tab, row) = {}
    THEN Db(db.tab \cup {[row EXCEPT !.id = db.next + 1]}, db.next + 1)
    ELSE db

----------------------------------------------------------------------------
(* sources/google/calendar/stream_processor.py *)

\* An event's start or end object: kind "dateTime", "date" (all-day) or "none".
TimeObj(kind, wall, aware, off) == [kind |-> kind, wall |-> wall, aware |-> aware, off |-> off]

NoTime == TimeObj("none", 0, FALSE, 0)

CalEvent(id, start, end, status, response, summary) ==
    [id |-> id, start |-> start, end |-> end, status |-> status,
     responseStatus |-> response, summary |-> summary]

\* The events raw calendar batches are made of. "" is an absent field.
CalendarPool ==
    [E1 |-> CalEvent("e1", TimeObj("dateTime", 840, TRUE, 0), TimeObj("dateTime", 900, TRUE, 0),
                     "confirmed", "", "Standup"),
     E1b |-> CalEvent("e1", TimeObj("dateTime", 840, TRUE, 0), TimeObj("dateTime", 930, TRUE, 0),
                      "confirmed", "tentative", "Standup (long)"),
     E3 |-> CalEvent("e3", TimeObj("dateTime", 540, TRUE, 0 - 300), TimeObj("dateTime", 600, TRUE, 0 - 300),
                     "confirmed", "accepted", "Call"),
     E4 |-> CalEvent("e4", TimeObj("dateTime", 600, TRUE, 0), NoTime,
                     "cancelled", "", "Dropped")]

CalendarNames == DOMAIN CalendarPool

CalendarSignals == {"google_calendar_events"}

calendar_dedup_strategy == "single"

_should_process_event(event) ==
    /\ event.status \notin {"declined", "cancelled"}
    /\ event.id # ""

\* None is modelled by kind "none".
_parse_event_time(t) ==
    IF t.kind = "dateTime" THEN [kind |-> "ok", dt |-> NormalizeTimestamp(t)]
    ELSE IF t.kind = "date" THEN [kind |-> "ok", dt |-> Dt(t.wall, FALSE, 0)]
    ELSE [kind |-> "none", dt |-> Dt(0, FALSE, 0)]

_is_all_day_event(event) == event.start.kind = "date" /\ event.end.kind = "date"

_extract_signal_value(event) ==
    IF _is_all_day_event(event) THEN "[All Day] " \o event.summary ELSE event.summary

_build_event_data(event) == DedupData("", event.id, event.summary)

_calculate_confidence(event) ==
    IF event.responseStatus \in {"accepted", ""} THEN 95
    ELSE IF event.responseStatus = "tentative" THEN 70
    ELSE IF event.responseStatus = "needsAction" THEN 60
    ELSE 50

_build_metadata(event, start_time, end_time) ==
    [event_id |-> event.id, status |-> event.status,
     response_status |-> event.responseStatus,
     start |-> IsoFormat(start_time), end |-> IsoFormat(end_time),
     duration_minutes |-> DbTimestamp(end_time) - DbTimestamp(start_time)]

\* One pass of the inner loop body of _process_events for one event and one signal.
CalendarEventStep(db, event, signal_name) ==
    LET st == _parse_event_time(event.start)
        en == _parse_event_time(event.end)
    IN  IF ~_should_process_event(event) THEN db
        ELSE IF st.kind = "none" \/ en.kind = "none" THEN db
        ELSE InsertOnConflictUpdate(db,
                Row(0, "google", signal_name,
                    generate_idempotency_key(calendar_dedup_strategy, st.dt,
                                             _build_event_data(event)),
                    DbTimestamp(st.dt), _extract_signal_value(event),
                    _calculate_confidence(event),
                    _build_metadata(event, st.dt, en.dt)))

RECURSIVE CalendarEventsLoop(_, _, _)
CalendarEventsLoop(db, batch, signal_name) ==
    IF batch = <<>> THEN db
    ELSE CalendarEventsLoop(CalendarEventStep(db, CalendarPool[Head(batch)], signal_name),
                            Tail(batch), signal_name)

\* _process_events: for every configured signal, every event of the batch in order.
RECURSIVE _process_events(_, _, _)
_process_events(db, batch, signal_configs) ==
    IF signal_configs = {} THEN db
    ELSE LET s == CHOOSE x \in signal_configs : TRUE
         IN  _process_events(CalendarEventsLoop(db, batch, s), batch, signal_configs \ {s})

----------------------------------------------------------------------------
(* sources/ios/mic/stream_processor.py *)

Chunk(id, start, duration, audio) ==
    [id |-> id, timestamp_start |-> start, duration |-> duration, audio_data |-> audio]

\* The chunks raw mic batches are made of. An id of "" is a chunk without 'id'.
MicPool ==
    [K1 |-> Chunk("c1", Dt(840, TRUE, 0), 5000, "loud"),
     K2 |-> Chunk("", Dt(850, TRUE, 0), 5000, "quiet"),
     K3 |-> Chunk("c3", Dt(540, TRUE, 0 - 300), 4000, "")]

MicNames == DOMAIN MicPool

MicSignals == {"ios_mic_transcription", "ios_audio_level"}

\* calculate_audio_level: dB SPL, rounded; undecodable data gives the default 50.
calculate_audio_level(audio) ==
    IF audio = "loud" THEN 72 ELSE IF audio = "quiet" THEN 31 ELSE 50

\* One pass of the loop body of process for one chunk.
MicChunkStep(db, chunk, signal_configs) ==
    LET fresh == chunk.id = ""
        \* chunk.get('id', str(uuid4()))
        original_chunk_id == IF fresh THEN "u" \o ToString(db.next + 1) ELSE chunk.id
        db0 == IF fresh THEN Db(db.tab, db.next + 1) ELSE db
        timestamp_start == ToNaiveUtc(chunk.timestamp_start)
        meta == [original_chunk_id |-> original_chunk_id, duration_ms |-> chunk.duration]
        db1 == IF "ios_mic_transcription" \in signal_configs
               THEN InsertOnConflictNothing(db0,
                        Row(0, "ios", "ios_mic_transcription",
                            generate_idempotency_key("multiple", timestamp_start,
                                                     DedupData("", original_chunk_id, "")),
                            DbTimestamp(timestamp_start),
                            "[Audio chunk " \o original_chunk_id \o ": "
                                \o ToString(chunk.duration) \o "ms, processing...]",
                            90, meta))
               ELSE db0
    IN  IF "ios_audio_level" \in signal_configs
        THEN InsertOnConflictNothing(db1,
                 Row(0, "ios", "ios_audio_level",
                     generate_idempotency_key("single", timestamp_start, DedupData("", "", "")),
                     DbTimestamp(timestamp_start),
                     ToString(calculate_audio_level(chunk.audio_data)),
                     95, [chunk_duration_ms |-> chunk.duration]))
        ELSE db1

RECURSIVE MicChunksLoop(_, _, _)
MicChunksLoop(db, batch, signal_configs) ==
    IF batch = <<>> THEN db
    ELSE MicChunksLoop(MicChunkStep(db, MicPool[Head(batch)], signal_configs),
                       Tail(batch), signal_configs)

\* process: nothing is done when neither audio signal is configured.
MicProcess(db, batch, signal_configs) ==
    IF signal_configs \cap MicSignals = {} THEN db
    ELSE MicChunksLoop(db, batch, signal_configs)

MicStatus(signal_configs) ==
    IF signal_configs \cap MicSignals = {} THEN "skipped" ELSE "success"

----------------------------------------------------------------------------
(* sources/ios/location/stream_processor.py *)

\* The module imports generate_source_event_id from dedup.py, which defines no such
\* name: importing the processor raises ImportError and no row is written.
LocationProcess(db, batch, signal_configs) == db

----------------------------------------------------------------------------
(* sources/ios/healthkit/stream_processor.py *)

\* A HealthKit entry. The timestamp is an ISO string (kind "dateTime"), absent
\* (kind "none") or a string fromisoformat rejects (kind "bad"); a value of "" is an
\* entry without 'value'.
Metric(metric_type, timestamp, value, activity_context) ==
    [metric_type |-> metric_type, timestamp |-> timestamp, value |-> value,
     activity_context |-> activity_context]

\* The entries raw HealthKit batches are made of.
HealthkitPool ==
    [H1 |-> Metric("heart_rate", TimeObj("dateTime", 600, TRUE, 0), "61", "resting"),
     H2 |-> Metric("steps", TimeObj("dateTime", 600, TRUE, 0), "840", "unknown"),
     H3 |-> Metric("heart_rate", NoTime, "70", "unknown"),
     H4 |-> Metric("steps", TimeObj("bad", 0, FALSE, 0), "12", "unknown")]

HealthkitNames == DOMAIN HealthkitPool

HealthkitSignals == {"ios_heart_rate", "ios_steps"}

\* The bucket of metrics_by_type each signal is fed from.
MetricTypeOf(signal_name) == IF signal_name = "ios_heart_rate" THEN "heart_rate" ELSE "steps"

MetricConfidence(metric, signal_name) ==
    IF signal_name # "ios_heart_rate" THEN 95
    ELSE IF metric.activity_context = "resting" THEN 98
    ELSE IF metric.activity_context = "exercising" THEN 90
    ELSE 95

\* A working state of the processor with the exception flag of the call.
Attempt(db, raised) == [tab |-> db.tab, next |-> db.next, raised |-> raised]

\* One pass of the loop body of _process_heart_rate or _process_steps: an entry
\* without timestamp is skipped; normalize_timestamp raises ValueError on a string it
\* cannot parse and metric['value'] raises KeyError on an entry without value.
HealthkitMetricStep(db, metric, signal_name) ==
    IF metric.timestamp.kind = "none" THEN Attempt(db, FALSE)
    ELSE IF metric.timestamp.kind = "bad" \/ metric.value = "" THEN Attempt(db, TRUE)
    ELSE LET timestamp == NormalizeTimestamp(metric.timestamp)
         IN  Attempt(InsertOnConflictUpdate(db,
                         Row(0, "ios", signal_name,
                             generate_idempotency_key("single", timestamp,
                                                      DedupData("", "", "")),
                             DbTimestamp(timestamp), metric.value,
                             MetricConfidence(metric, signal_name),
                             [device_id |-> "dev", value |-> metric.value])),
                     FALSE)

RECURSIVE HealthkitMetricsLoop(_, _, _)
HealthkitMetricsLoop(db, metrics, signal_name) ==
    IF metrics = <<>> THEN Attempt(db, FALSE)
    ELSE LET out == HealthkitMetricStep(db, HealthkitPool[Head(metrics)], signal_name)
         IN  IF out.raised THEN out
             ELSE HealthkitMetricsLoop(Db(out.tab, out.next), Tail(metrics), signal_name)

\* The entries of one metric type, in batch order.
MetricsByType(batch, metric_type) ==
    SelectSeq(batch, LAMBDA n : HealthkitPool[n].metric_type = metric_type)

\* The mutant of HealthkitBlock: the block runs whether or not its signal is configured.
HealthkitBlockUnguarded(db, batch, signal_configs, signal_name) ==
    IF MetricsByType(batch, MetricTypeOf(signal_name)) # <<>>
    THEN HealthkitMetricsLoop(db, MetricsByType(batch, MetricTypeOf(signal_name)), signal_name)
    ELSE Attempt(db, FALSE)

\* One `if metrics_by_type[...] and ... in signal_configs` block.
HealthkitBlock(db, batch, signal_configs, signal_name) ==
    IF MetricsByType(batch, MetricTypeOf(signal_name)) # <<>> /\ signal_name \in signal_configs
    THEN HealthkitMetricsLoop(db, MetricsByType(batch, MetricTypeOf(signal_name)), signal_name)
    ELSE Attempt(db, FALSE)

\* _process_healthkit_array: heart rate first, then steps, then the commit. An
\* exception leaves the method before db.commit().
_process_healthkit_array(db, batch, signal_configs) ==
    LET hr == HealthkitBlock(db, batch, signal_configs, "ios_heart_rate")
    IN  IF hr.raised THEN hr
        ELSE HealthkitBlock(Db(hr.tab, hr.next), batch, signal_configs, "ios_steps")

\* What the call leaves in the table. When it raised, the except block of
\* process_stream_batch records the failure and commits on the same session, and the
\* rows inserted before the exception are committed with it.
HealthkitProcess(db, batch, signal_configs) ==
    LET out == _process_healthkit_array(db, batch, signal_configs)
    IN  Db(out.tab, out.next)

----------------------------------------------------------------------------
(* Processing raw batches: process_stream_generic calling the bound processor *)

\* The raw batches over a pool of entries: up to n different entries, in any order.
Batches(S, n) ==
    UNION {{b \in [1..k -> S] : \A i, j \in 1..k : b[i] = b[j] => i = j} : k \in 0..n}

RunProcessor(proc, db, batch, cfg) ==
    IF proc = "google_calendar" THEN _process_events(db, batch, cfg)
    ELSE IF proc = "ios_mic" THEN MicProcess(db, batch, cfg)
    ELSE IF proc = "ios_healthkit" THEN HealthkitProcess(db, batch, cfg)
    ELSE LocationProcess(db, batch, cfg)

NoRun == [proc |-> "none", batch |-> <<>>, cfg |-> {}]

\* An empty signals table, no batch processed yet, and the signals configured for
\* the ios_mic stream.
IngestStartWith(db, enabled) ==
    /\ signals = db.tab
    /\ nextUuid = db.next
    /\ lastRun = NoRun
    /\ snap = {}
    /\ phase = "idle"
    /\ runs = 0
    /\ prev = {}
    /\ micEnabled = enabled

IngestStart(enabled) == IngestStartWith(Db({}, 0), enabled)

\* A first run of a processor on a raw batch.
FirstRun(proc, batch, cfg) ==
    LET out == RunProcessor(proc, Db(signals, nextUuid), batch, cfg)
    IN  /\ runs' = runs + 1
        /\ prev' = signals
        /\ signals' = out.tab
        /\ nextUuid' = out.next
        /\ lastRun' = [proc |-> proc, batch |-> batch, cfg |-> cfg]
        /\ snap' = out.tab
        /\ phase' = "once"
        /\ UNCHANGED micEnabled
        /\ UNCHANGED notIngest

ProcessCalendarBatch ==
    \E batch \in Batches(CalendarNames, MaxBatchLen) :
        /\ runs < MaxRuns
        /\ FirstRun("google_calendar", batch, CalendarSignals)

ProcessMicBatch ==
    \E batch \in Batches(MicNames, MaxBatchLen) :
        /\ runs < MaxRuns
        /\ FirstRun("ios_mic", batch, micEnabled)

ProcessLocationBatch ==
    /\ runs < MaxRuns
    /\ FirstRun("ios_location", <<>>, {"ios_speed"})

\* The same raw batch is processed a second time (a redelivered or retried task).
ReprocessBatch ==
    LET out == RunProcessor(lastRun.proc, Db(signals, nextUuid), lastRun.batch, lastRun.cfg)
    IN  /\ phase = "once"
        /\ prev' = signals
        /\ signals' = out.tab
        /\ nextUuid' = out.next
        /\ phase' = "twice"
        /\ UNCHANGED <<lastRun, snap, runs, micEnabled>>
        /\ UNCHANGED notIngest

IngestNext ==
    \/ ProcessCalendarBatch
    \/ ProcessMicBatch
    \/ ProcessLocationBatch
    \/ ReprocessBatch

----------------------------------------------------------------------------
(* process_stream_generic: choosing the signal_configs handed to the processor *)

\* The signal_configs rows of each stream.
StreamSignals ==
    [google_calendar |-> CalendarSignals, ios_mic |-> MicSignals,
     ios_healthkit |-> HealthkitSignals]

StreamPool ==
    [google_calendar |-> CalendarNames, ios_mic |-> MicNames, ios_healthkit |-> HealthkitNames]

\* The values of streams.enabled_signals: a JSON list of signal names, which may name
\* a signal of another stream; {} is both NULL and [].
EnabledChoices(stream_name) == SUBSET (StreamSignals[stream_name] \cup {"ios_speed"})

\* SELECT signal_name, id FROM signal_configs WHERE stream_name = :stream_name
\* [AND signal_name IN (...)]: the filter is applied to a non-empty list only.
SelectSignalConfigs(stream_name, enabled_signals) ==
    IF enabled_signals # {}
    THEN {s \in StreamSignals[stream_name] : s \in enabled_signals}
    ELSE StreamSignals[stream_name]

\* processor.process(...) left the call with an exception.
ProcessorRaised(proc, db, batch, cfg) ==
    proc = "ios_healthkit" /\ _process_healthkit_array(db, batch, cfg).raised

\* stream_configs.source_name of each stream.
StreamSource == [google_calendar |-> "google", ios_mic |-> "ios", ios_healthkit |-> "ios"]

\* The processor's result has a 'signals_created' entry: the "skipped" result of the
\* microphone processor has none, and result['signals_created'] raises KeyError.
HasSignalsCreated(proc, cfg) == ~ (proc = "ios_mic" /\ MicStatus(cfg) = "skipped")

\* result['signals_created']: for each key the number of INSERT statements the
\* processor executed.  The calendar processor has a key for every configured signal,
\* the microphone processor always its two keys, the HealthKit processor a key for
\* each block it entered.
signals_created(proc, batch, cfg) ==
    IF proc = "google_calendar"
    THEN [s \in cfg |->
             Cardinality({i \in DOMAIN batch :
                 CalendarEventStep(Db({}, 0), CalendarPool[batch[i]], s).tab # {}})]
    ELSE IF proc = "ios_mic"
    THEN [s \in MicSignals |-> IF s \in cfg THEN Len(batch) ELSE 0]
    ELSE [s \in {x \in HealthkitSignals :
                    MetricsByType(batch, MetricTypeOf(x)) # <<>> /\ x \in cfg} |->
             Cardinality({i \in DOMAIN batch :
                 /\ HealthkitPool[batch[i]].metric_type = MetricTypeOf(s)
                 /\ HealthkitPool[batch[i]].timestamp.kind # "none"})]

RECURSIVE SumOver(_, _)
SumOver(f, S) ==
    IF S = {} THEN 0
    ELSE LET x == CHOOSE y \in S : TRUE IN f[x] + SumOver(f, S \ {x})

\* The rows of SELECT MIN(timestamp), MAX(timestamp) FROM signals WHERE created_at >=
\* now - 5 minutes AND source_name = :source_name: the rows of the source inserted by
\* this task, and those the table held before when they are that recent.  A row
\* updated by ON CONFLICT keeps its created_at.
RecentlyCreated(tab, before, source_name, recent) ==
    {r \in tab : /\ r.source_name = source_name
                 /\ (recent \/ r.id \notin {b.id : b \in before})}

MinTimestamp(rows) == CHOOSE t \in {r.timestamp : r \in rows} : \A r \in rows : t <= r.timestamp
MaxTimestamp(rows) == CHOOSE t \in {r.timestamp : r \in rows} : \A r \in rows : t >= r.timestamp

\* The run_single_signal_transition_detection tasks process_stream_batch sends after
\* its commit: one for every key of result['signals_created'], all with the time
\* range of the query, when the counts sum to more than 0 and the query found rows.
QueuedDetections(proc, batch, cfg, tab, before, recent) ==
    LET created == signals_created(proc, batch, cfg)
        rows == RecentlyCreated(tab, before, StreamSource[proc], recent)
    IN  IF /\ HasSignalsCreated(proc, cfg)
           /\ SumOver(created, DOMAIN created) > 0
           /\ rows # {}
        THEN {[signal_name |-> name, batch_start |-> MinTimestamp(rows),
               batch_end |-> MaxTimestamp(rows)] : name \in DOMAIN created}
        ELSE {}

\* One raw batch of a stream is processed with the stream's enabled_signals; recent
\* says whether the rows stored before were created in the last five minutes.
process_stream_generic ==
    \E stream_name \in DOMAIN StreamSignals, recent \in BOOLEAN :
      \E enabled_signals \in EnabledChoices(stream_name) :
        \E batch \in Batches(StreamPool[stream_name], MaxBatchLen) :
          LET signal_configs == SelectSignalConfigs(stream_name, enabled_signals)
              out == RunProcessor(stream_name, Db(signals, nextUuid), batch, signal_configs)
          IN  /\ phase = "idle"
              /\ runs' = runs + 1
              /\ prev' = signals
              /\ signals' = out.tab
              /\ nextUuid' = out.next
              /\ lastRun' = [proc |-> stream_name, batch |-> batch, cfg |-> signal_configs,
                             enabled |-> enabled_signals,
                             failed |-> ProcessorRaised(stream_name, Db(signals, nextUuid),
                                                        batch, signal_configs),
                             recent |-> recent,
                             queued |-> IF ProcessorRaised(stream_name, Db(signals, nextUuid),
                                                           batch, signal_configs)
                                        THEN {}
                                        ELSE QueuedDetections(stream_name, batch,
                                                 signal_configs, out.tab, signals, recent)]
              /\ snap' = out.tab
              /\ phase' = "once"
              /\ UNCHANGED micEnabled
              /\ UNCHANGED notIngest

\* The rows a step inserted, updated or deleted (an updated row counts in both forms).
MutatedRows == (signals' \ signals) \cup (signals \ signals')

\* The signals a stream has enabled: those listed, every configured one when the
\* list is NULL or empty.
EnabledSignalSet(stream_name, enabled_signals) ==
    IF enabled_signals = {} THEN StreamSignals[stream_name] ELSE enabled_signals

\* C23, as stated: a stream processor does not insert, update or delete signal rows
\* of a signal that is not in the enabled_signals list of its stream.
C23_OnlyListedSignalsMutated ==
    [][\A r \in MutatedRows : r.signal_name \in lastRun'.enabled]_vars

\* C23: a stream processor does not insert, update or delete signal rows of a signal
\* that is not enabled for its stream, where a NULL or empty enabled_signals list
\* enables every signal configured for the stream.
C23_OnlyEnabledSignalsMutated ==
    [][\A r \in MutatedRows :
          r.signal_name \in EnabledSignalSet(lastRun'.proc, lastRun'.enabled)]_vars

\* A run with a proper sublist enabled changed the table while rows of a signal left
\* out of the list were there, and left those rows as they were.
C23_Witness ==
    /\ phase = "once"
    /\ lastRun.proc = "ios_healthkit"
    /\ lastRun.enabled = {"ios_steps"}
    /\ signals # prev
    /\ \E r \in prev : r.signal_name = "ios_heart_rate"
    /\ "H1" \in {lastRun.batch[i] : i \in DOMAIN lastRun.batch}

\* A HealthKit entry the processor cannot turn into a row: its timestamp does not
\* parse or is absent, or it has no value.
Malformed(n) ==
    \/ HealthkitPool[n].timestamp.kind \in {"bad", "none"}
    \/ HealthkitPool[n].value = ""

WellFormed(batch) == SelectSeq(batch, LAMBDA n : ~ Malformed(n))

\* The rows of a table without their generated ids.
WithoutId(tab) == {[f \in DOMAIN r \ {"id"} |-> r[f]] : r \in tab}

HealthkitRun == phase = "once" /\ lastRun.proc = "ios_healthkit"

\* The run left what processing only the well-formed entries of its batch leaves.
MalformedSkipped ==
    WithoutId(signals) =
        WithoutId(RunProcessor(lastRun.proc, Db(prev, Cardinality(prev)),
                               WellFormed(lastRun.batch), lastRun.cfg).tab)

\* C27: a malformed entry of a raw batch is skipped on its own: the other entries of
\* the batch are still processed and the batch does not fail because of it.
C27_MalformedEntrySkipped ==
    HealthkitRun => (~ lastRun.failed /\ MalformedSkipped)

\* The part of C27 that holds: an entry without timestamp is skipped on its own.
MissingTimestampSkipped ==
    (/\ HealthkitRun
     /\ \A i \in DOMAIN lastRun.batch :
            HealthkitPool[lastRun.batch[i]].timestamp.kind # "bad"
            /\ HealthkitPool[lastRun.batch[i]].value # "")
        => (~ lastRun.failed /\ MalformedSkipped)

\* What the code does with an entry whose timestamp does not parse: the batch fails
\* as soon as an enabled block reaches the entry.
UnparsableEntryFailsBatch ==
    (/\ HealthkitRun
     /\ "ios_steps" \in lastRun.cfg
     /\ \E i \in DOMAIN lastRun.batch : lastRun.batch[i] = "H4")
        => lastRun.failed

\* A batch has been processed and committed.
BatchCommitted == phase = "once" /\ "queued" \in DOMAIN lastRun /\ ~ lastRun.failed

\* The rows the batch wrote: those it inserted and those it changed.
WrittenRows == signals \ prev

\* C33: after a processed batch is committed, one run_single_signal_transition_detection
\* task is enqueued for each signal the batch wrote rows for and none for any other
\* signal, and each task's time range is the envelope of the rows the batch wrote.
C33_OneDetectionPerWrittenSignal ==
    BatchCommitted =>
        /\ {q.signal_name : q \in lastRun.queued} = {r.signal_name : r \in WrittenRows}
        /\ \A q \in lastRun.queued :
               /\ q.batch_start = MinTimestamp(WrittenRows)
               /\ q.batch_end = MaxTimestamp(WrittenRows)

\* The part of C33 that holds: tasks are sent only for signals of the processed
\* stream and only by a batch that executed an INSERT, at most one for a signal, and
\* their time range contains every row the batch inserted.
DetectionsCoverInsertedRows ==
    BatchCommitted =>
        \A q \in lastRun.queued :
            /\ q.signal_name \in StreamSignals[lastRun.proc]
            /\ lastRun.batch # <<>>
            /\ \A q2 \in lastRun.queued : q2.signal_name = q.signal_name => q2 = q
            /\ \A r \in signals :
                   (r.source_name = StreamSource[lastRun.proc] /\ r.id \notin {b.id : b \in prev})
                       => (q.batch_start <= r.timestamp /\ r.timestamp <= q.batch_end)

\* What the code does: a signal whose count is 0 gets a task as well.
TaskForEveryResultKey ==
    (BatchCommitted /\ lastRun.queued # {} /\ lastRun.proc = "ios_mic")
        => {q.signal_name : q \in lastRun.queued} = MicSignals

----------------------------------------------------------------------------
(* Claims about ingestion *)

SameKey(r1, r2) ==
    /\ r1.source_name = r2.source_name
    /\ r1.idempotency_key = r2.idempotency_key
    /\ r1.signal_name = r2.signal_name

\* The signals whose rows are keyed with dedup strategy 'single'.
SingleDedupSignals ==
    {s \in CalendarSignals : calendar_dedup_strategy = "single"} \cup {"ios_audio_level"}

\* An event the calendar loop does not skip.
CalendarProcessed(event) ==
    /\ _should_process_event(event)
    /\ _parse_event_time(event.start).kind = "ok"
    /\ _parse_event_time(event.end).kind = "ok"

CalendarKey(event) ==
    generate_idempotency_key(calendar_dedup_strategy, _parse_event_time(event.start).dt,
                             _build_event_data(event))

\* The last entry of the last calendar batch that is written under a given key.
CalendarLastWriters ==
    {i \in DOMAIN lastRun.batch :
        /\ CalendarProcessed(CalendarPool[lastRun.batch[i]])
        /\ \A j \in DOMAIN lastRun.batch :
              (j > i /\ CalendarProcessed(CalendarPool[lastRun.batch[j]]))
                  => CalendarKey(CalendarPool[lastRun.batch[j]])
                        # CalendarKey(CalendarPool[lastRun.batch[i]])}

\* The calendar rows hold the values of the last incoming event with their key.
CalendarHoldsIncoming ==
    \A i \in CalendarLastWriters : \A s \in lastRun.cfg :
        LET e == CalendarPool[lastRun.batch[i]]
            st == _parse_event_time(e.start).dt
            en == _parse_event_time(e.end).dt
        IN  \E r \in signals :
                /\ r.source_name = "google" /\ r.signal_name = s
                /\ r.idempotency_key = CalendarKey(e)
                /\ r.timestamp = DbTimestamp(st)
                /\ r.signal_value = _extract_signal_value(e)
                /\ r.confidence = _calculate_confidence(e)
                /\ r.source_metadata = _build_metadata(e, st, en)

MicAudioKey(chunk) ==
    generate_idempotency_key("single", ToNaiveUtc(chunk.timestamp_start), DedupData("", "", ""))

\* The audio-level rows hold the values of the last incoming chunk with their key.
MicHoldsIncoming ==
    \A i \in DOMAIN lastRun.batch :
        LET c == MicPool[lastRun.batch[i]]
        IN  (/\ "ios_audio_level" \in lastRun.cfg
             /\ \A j \in DOMAIN lastRun.batch :
                    j > i => MicAudioKey(MicPool[lastRun.batch[j]]) # MicAudioKey(c))
            => \E r \in signals :
                   /\ r.source_name = "ios" /\ r.signal_name = "ios_audio_level"
                   /\ r.idempotency_key = MicAudioKey(c)
                   /\ r.signal_value = ToString(calculate_audio_level(c.audio_data))

\* C1: processing the same raw batch twice leaves exactly the signal rows, with the
\* same field values, that processing it once left.
C1_IdempotentIngestion == phase = "twice" => signals = snap

\* C2: for a signal with dedup_strategy single there is at most one row per
\* (source, signal, timestamp).
C2_SingleOneRowPerTimestamp ==
    \A r1, r2 \in signals :
        (/\ r1.signal_name \in SingleDedupSignals
         /\ r1.source_name = r2.source_name
         /\ r1.signal_name = r2.signal_name
         /\ r1.timestamp = r2.timestamp) => r1 = r2

\* C3: for the batch holding only event e1 (14:00Z to 15:00Z, confirmed) the calendar
\* processor writes exactly one signal, timestamp 14:00Z, idempotency key
\* "2025-05-03T14:00:00+00:00:e1".
C3_CalendarBoundaryKey ==
    (/\ runs = 1 /\ phase = "once"
     /\ lastRun.proc = "google_calendar" /\ lastRun.batch = <<"E1">>)
        => \E r \in signals :
               /\ signals = {r}
               /\ r.timestamp = 840
               /\ r.idempotency_key = "2025-05-03T14:00:00+00:00:e1"

NoSecondRow == \A r1, r2 \in signals : SameKey(r1, r2) => r1 = r2

----------------------------------------------------------------------------
(* sources/base/scheduler/tasks/sync_sources.py: sync_stream and its scheduling *)

MaxEnqueues == 2      \* sync_stream messages sent by the scheduler or by hand
MaxTime == 1          \* ticks of the scheduler's clock
NumWorkers == 2       \* worker processes executing tasks
CronPeriod == 1       \* ticks between two firings of a stream's cron_schedule

max_retries == 3

\* Celery's Task.default_retry_delay, used when retry() is given no countdown.
default_retry_delay == 3 * 60

NULL == 0 - 1

NoRetry == 0 - 1

\* The active, pull, cloud, oauth2 streams with a cron schedule.
Streams == {"google_calendar", "notion_pages"}

\* What the syncer met upstream and whether the exception left sync.run().
Outcome(failure, raised) == [failure |-> failure, raised |-> raised]

\* GoogleCalendarSync: an error while listing calendars is re-raised, an error while
\* paging one calendar's events is kept in stats["errors"].  NotionPagesSync.run
\* catches every exception and returns stats with status "error".
SyncOutcomes(stream) ==
    IF stream = "google_calendar"
    THEN {Outcome("none", FALSE), Outcome("transient", TRUE), Outcome("transient", FALSE),
          Outcome("unauthorized", TRUE), Outcome("schema", TRUE)}
    ELSE {Outcome("none", FALSE), Outcome("transient", FALSE),
          Outcome("unauthorized", FALSE), Outcome("schema", TRUE)}

\* error_message = f"{type(e).__name__}: {str(e)}", as its words.
error_message(failure) ==
    IF failure = "transient" THEN <<"ConnectError:", "All", "connection", "attempts", "failed">>
    ELSE IF failure = "unauthorized"
         THEN <<"HTTPStatusError:", "Client", "error", "401", "Unauthorized">>
    ELSE IF failure = "schema" THEN <<"ProgrammingError:", "column", "does", "not", "exist">>
    ELSE <<"ValueError:", "No", "authenticated", "source", "found">>

non_retryable_errors ==
    {"ProgrammingError:", "UndefinedColumn", "AuthenticationError", "PermissionError",
     "Unauthorized"}

should_retry(message) ==
    ~ \E i \in DOMAIN message : message[i] \in non_retryable_errors

\* croniter(cron_schedule, last_sync).get_next(): the first firing after last_sync.
get_next(last_sync) == ((last_sync \div CronPeriod) + 1) * CronPeriod

should_sync(stream) ==
    IF last_ingestion_at[stream] = NULL THEN TRUE
    ELSE get_next(last_ingestion_at[stream]) <= now

Message(id, stream, manual, retries, countdown) ==
    [id |-> id, stream |-> stream, manual |-> manual, retries |-> retries,
     countdown |-> countdown]

NoneDone == [stream |-> "none", retries |-> 0, failure |-> "none", raised |-> FALSE,
             status |-> "none", countdown |-> NoRetry]

\* No stream synced yet and nothing queued; tokens says which sources hold a token.
SyncStart(tokens) ==
    /\ now = 0
    /\ last_ingestion_at = [s \in Streams |-> NULL]
    /\ has_token = tokens
    /\ queue = {}
    /\ running = {}
    /\ activities = {}
    /\ enqueued = 0
    /\ lastDone = NoneDone

Tick ==
    /\ now < MaxTime
    /\ now' = now + 1
    /\ UNCHANGED <<last_ingestion_at, has_token, queue, running, activities, enqueued,
                   lastDone>>
    /\ UNCHANGED notSync

\* The streams check_scheduled_syncs sends a sync_stream message for.
Triggered == {s \in Streams : has_token[s] /\ should_sync(s)}

\* Numbers the elements of a set of streams from 1.
Numbered(S) == CHOOSE f \in [S -> 1..Cardinality(S)] : \A a, b \in S : a # b => f[a] # f[b]

check_scheduled_syncs ==
    /\ Triggered # {}
    /\ enqueued + Cardinality(Triggered) <= MaxEnqueues
    /\ queue' = queue \cup {Message(enqueued + Numbered(Triggered)[s], s, FALSE, 0, 0) :
                                s \in Triggered}
    /\ enqueued' = enqueued + Cardinality(Triggered)
    /\ UNCHANGED <<now, last_ingestion_at, has_token, running, activities, lastDone>>
    /\ UNCHANGED notSync

\* sync_stream.delay(stream_id, manual=True)
ManualSync ==
    \E s \in Streams :
        /\ enqueued < MaxEnqueues
        /\ queue' = queue \cup {Message(enqueued + 1, s, TRUE, 0, 0)}
        /\ enqueued' = enqueued + 1
        /\ UNCHANGED <<now, last_ingestion_at, has_token, running, activities, lastDone>>
        /\ UNCHANGED notSync

\* A worker takes a message and runs sync_stream up to the commit of its
\* pipeline_activities row with status running.
SyncStreamStart ==
    \E t \in queue :
        /\ Cardinality(running) < NumWorkers
        /\ queue' = queue \ {t}
        /\ running' = running \cup {t}
        /\ activities' = activities \cup
               {[id |-> <<t.id, t.retries>>, stream_id |-> t.stream, status |-> "running"]}
        /\ UNCHANGED <<now, last_ingestion_at, has_token, enqueued, lastDone>>
        /\ UNCHANGED notSync

SetStatus(t, status) ==
    {IF a.id = <<t.id, t.retries>> THEN [a EXCEPT !.status = status] ELSE a : a \in activities}

\* The countdown of the message the failed execution t leaves in the broker, or NoRetry.
\* The handler calls self.retry with its own countdown when it means to retry and
\* re-raises otherwise; autoretry_for=(Exception,) turns the re-raised exception into
\* self.retry(exc, max_retries=3), which gives up once retries + 1 > max_retries.
RetryCountdown(t, message) ==
    IF should_retry(message) /\ t.retries < max_retries
    THEN 60 * (2 ^ t.retries)
    ELSE IF t.retries + 1 > max_retries THEN NoRetry ELSE default_retry_delay

\* stream_configs.last_ingestion_at always set by the execution, failed or not.
LastIngestionAlwaysSet(t, raised) ==
    [last_ingestion_at EXCEPT ![t.stream] = now]

\* stream_configs.last_ingestion_at at the commit that ends execution t: the UPDATE
\* of the success path comes after sync.run() and is the last statement but one
\* before its commit; the except block updates pipeline_activities only.
LastIngestionAfter(t, raised) ==
    IF raised THEN last_ingestion_at
    ELSE [last_ingestion_at EXCEPT ![t.stream] = now]

\* The rest of sync_stream: credentials, sync.run(), and either the updates of the
\* success path or the except block.
SyncStreamFinish ==
    \E t \in running :
        \E o \in (IF has_token[t.stream] THEN SyncOutcomes(t.stream)
                  ELSE {Outcome("no_token", TRUE)}) :
            LET countdown == RetryCountdown(t, error_message(o.failure))
            IN  /\ running' = running \ {t}
                /\ IF o.raised
                   THEN /\ activities' = SetStatus(t, "failed")
                        /\ queue' = IF countdown = NoRetry THEN queue
                                    ELSE queue \cup {Message(t.id, t.stream, t.manual,
                                                             t.retries + 1, countdown)}
                        /\ lastDone' = [stream |-> t.stream, retries |-> t.retries,
                                        failure |-> o.failure, raised |-> TRUE,
                                        status |-> "failed", countdown |-> countdown]
                   ELSE /\ activities' = SetStatus(t, "completed")
                        /\ lastDone' = [stream |-> t.stream, retries |-> t.retries,
                                        failure |-> o.failure, raised |-> FALSE,
                                        status |-> "completed", countdown |-> NoRetry]
                        /\ UNCHANGED queue
                /\ last_ingestion_at' = LastIngestionAfter(t, o.raised)
                /\ UNCHANGED <<now, has_token, enqueued>>
                /\ UNCHANGED notSync

SyncNext ==
    \/ Tick
    \/ check_scheduled_syncs
    \/ ManualSync
    \/ SyncStreamStart
    \/ SyncStreamFinish

----------------------------------------------------------------------------
(* Claims about sync_stream *)

\* C5: at most one sync_stream execution per stream runs at a time, whoever sent
\* the message (the scheduler, a manual trigger or a retry).
C5_OneSyncPerStream ==
    \A t1, t2 \in running : t1.stream = t2.stream => t1 = t2

\* The backoff before the first, second and third retry.
Backoff == <<60, 120, 240>>

\* C6: a sync_stream execution that fails with a transient upstream error is retried
\* up to 3 times, after 60 s, 120 s and 240 s, and not again once the third retry failed.
C6_TransientRetried ==
    lastDone.failure = "transient" =>
        IF lastDone.retries < 3
        THEN lastDone.countdown = Backoff[lastDone.retries + 1]
        ELSE lastDone.countdown = NoRetry

\* The part of C6 that holds: when the syncer lets the transient error out of run(),
\* the retries follow the 60/120/240 schedule and stop after the third.
RaisedTransientRetried ==
    (lastDone.failure = "transient" /\ lastDone.raised) =>
        IF lastDone.retries < 3
        THEN lastDone.countdown = Backoff[lastDone.retries + 1]
        ELSE lastDone.countdown = NoRetry

\* C7: a sync_stream execution that fails with a non-retryable failure (missing OAuth
\* tokens, upstream unauthorized, local schema error) marks its audit row failed and
\* is never executed again by an automatic retry.
C7_NonRetryableNotRetried ==
    lastDone.failure \in {"no_token", "unauthorized", "schema"} =>
        /\ lastDone.status = "failed"
        /\ lastDone.countdown = NoRetry

\* The messages check_scheduled_syncs sends in a step.
ScheduledInStep == {t \in queue' \ queue : ~ t.manual /\ t.retries = 0}

AuthFailed ==
    /\ lastDone.status = "failed"
    /\ lastDone.failure \in {"no_token", "unauthorized"}

\* C22: once a sync_stream execution of a stream has failed for missing or rejected
\* credentials, check_scheduled_syncs sends no sync_stream message for that stream
\* as long as the source's credentials stay as they are.
C22_AuthFailureStopsSchedule ==
    [][AuthFailed => \A t \in ScheduledInStep : t.stream # lastDone.stream]_vars

\* What the scheduler does check: a source without access token is passed over.
UnauthenticatedNotScheduled ==
    [][\A t \in ScheduledInStep : has_token[t.stream]]_vars

\* The syncer of the last execution ended on an error that stopped the whole sync:
\* an exception that left run(), or any exception inside NotionPagesSync.run, which
\* catches it, sets stats["status"] = "error" and returns (a failed calendar is
\* recorded per calendar and the other calendars are still synced).
FatalError ==
    /\ lastDone.failure # "none"
    /\ (lastDone.raised \/ lastDone.stream = "notion_pages")

\* C31: the audit row of a sync_stream execution is closed as completed, and
\* last_ingestion_at advanced, only if the syncer finished without a fatal error.
C31_CompletedOnlyWithoutFatalError ==
    lastDone.status = "completed" => ~ FatalError

\* The part of C31 that holds: an exception that leaves run() never ends in a
\* completed row.
RaisedNeverCompleted ==
    lastDone.raised => lastDone.status = "failed"

\* The pipeline_activities rows a step closes as failed.
ClosedFailed ==
    {a \in activities : a.status = "running" /\ [a EXCEPT !.status = "failed"] \in activities'}

\* C34: a sync_stream execution that closes its audit row as failed leaves the
\* stream's last_ingestion_at as it was, so the stream is due for its next scheduled
\* sync exactly when it was due before.
C34_FailedRunKeepsLastIngestion ==
    [][\A a \in ClosedFailed :
          /\ last_ingestion_at'[a.stream_id] = last_ingestion_at[a.stream_id]
          /\ should_sync(a.stream_id)' = should_sync(a.stream_id)]_vars

\* A failed execution of a stream that had been synced before.
C34_Witness ==
    /\ lastDone.status = "failed"
    /\ last_ingestion_at[lastDone.stream] # NULL
    /\ last_ingestion_at[lastDone.stream] < now

----------------------------------------------------------------------------
(* sources/base/scheduler/tasks/signal_analysis.py: single-signal detection, with   *)
(* sources/ios/mic/audio_level/detector.py on sources/base/transitions/pelt.py      *)

MaxDetections == 3    \* detection tasks run in one behaviour

\* The timestamps, in seconds, at which an ios_audio_level row may exist.
SampleTimes == {0, 500, 1000, 1500}

gap_threshold_seconds == 600
min_segment_size == 3
min_gap_seconds == 300
audio_min_confidence == 85

\* The elements of a set of integers in increasing order.
RECURSIVE Sorted(_)
Sorted(S) ==
    IF S = {} THEN <<>>
    ELSE LET lo == CHOOSE x \in S : \A y \in S : x <= y
         IN  <<lo>> \o Sorted(S \ {lo})

\* detect_collection_periods: the sorted timestamps cut where two neighbours are more
\* than the threshold apart; a sequence of periods, each a sequence of timestamps.
RECURSIVE CollectionPeriods(_, _, _)
CollectionPeriods(ts, i, periods) ==
    IF i > Len(ts) THEN periods
    ELSE IF i = 1 THEN CollectionPeriods(ts, 2, <<(<<ts[1]>>)>>)
    ELSE LET n == Len(periods)
         IN  IF ts[i] - ts[i - 1] > gap_threshold_seconds
             THEN CollectionPeriods(ts, i + 1, Append(periods, <<ts[i]>>))
             ELSE CollectionPeriods(ts, i + 1,
                                    [periods EXCEPT ![n] = Append(periods[n], ts[i])])

detect_collection_periods(ts) == CollectionPeriods(ts, 1, <<>>)

Transition(time, type, magnitude, direction, confidence) ==
    [transition_time |-> time, transition_type |-> type, change_magnitude |-> magnitude,
     change_direction |-> direction, confidence |-> confidence]

\* _run_pelt_detection is entered for a period of at least 2 * min_segment_size
\* points.  The changepoints ruptures finds are not computed: a call of
\* detect_transitions carries the ones it is to find, and a changepoint lies at
\* least min_segment_size points from either end of the period.  The sample times
\* above never give a period that long.
_run_pelt_detection(period) ==
    IF call.fn # "detect_transitions" THEN <<>>
    ELSE LET inner == {period[k] : k \in (min_segment_size + 1)..(Len(period) - min_segment_size + 1)}
             found == {c \in call.args.changepoints : c.time \in inner}
             times == Sorted({c.time : c \in found})
         IN  [k \in DOMAIN times |->
                 Transition(times[k], "changepoint", 5, "increase",
                            (CHOOSE c \in found : c.time = times[k]).confidence)]

\* A variant that puts the data_gap at the first sample of the period.
GapAtPeriodStart(periods, i, end_time) ==
    LET period == periods[i]
        period_end == period[Len(period)]
        pelt == IF Len(period) >= min_segment_size * 2
                THEN _run_pelt_detection(period) ELSE <<>>
        should_add_stop == \/ i < Len(periods)
                           \/ end_time - period_end > gap_threshold_seconds
    IN  (IF should_add_stop
         THEN <<Transition(period[1], "data_gap", NULL, "NULL", 100)>>
         ELSE <<>>) \o pelt

\* The transitions of one collection period: nothing when the collection starts,
\* the PELT changepoints, and a data_gap when it stops before the window ends.
PeriodTransitions(periods, i, end_time) ==
    LET period == periods[i]
        period_end == period[Len(period)]
        pelt == IF Len(period) >= min_segment_size * 2
                THEN _run_pelt_detection(period) ELSE <<>>
        should_add_stop == \/ i < Len(periods)
                           \/ end_time - period_end > gap_threshold_seconds
    IN  pelt \o (IF should_add_stop
                 THEN <<Transition(period_end, "data_gap", NULL, "NULL", 100)>>
                 ELSE <<>>)

RECURSIVE AllPeriodTransitions(_, _, _)
AllPeriodTransitions(periods, i, end_time) ==
    IF i > Len(periods) THEN <<>>
    ELSE PeriodTransitions(periods, i, end_time)
             \o AllPeriodTransitions(periods, i + 1, end_time)

\* A transition with the metadata merging gave it (NULL: none).
Merged(transition, metadata) == [transition |-> transition, metadata |-> metadata]

\* A variant of _merge_transition_group that lets the first member of the group stand
\* for it.
FirstOfGroup(group) ==
    IF Len(group) = 1 THEN Merged(group[1], NULL)
    ELSE LET boosted == (group[1].confidence * 11) \div 10
         IN  Merged([group[1] EXCEPT !.confidence = IF boosted > 100 THEN 100 ELSE boosted],
                    [merged_count |-> Len(group), merged_transitions |-> group])

\* _merge_transition_group: a single transition is returned as it is; otherwise the
\* first transition of highest confidence (max) stands for the group, its metadata
\* lists the members as they were and its confidence is raised by a tenth (at most
\* 100).
_merge_transition_group(group) ==
    IF Len(group) = 1 THEN Merged(group[1], NULL)
    ELSE LET best == CHOOSE k \in DOMAIN group :
                         /\ \A j \in DOMAIN group : group[j].confidence <= group[k].confidence
                         /\ \A j \in 1..(k - 1) : group[j].confidence < group[k].confidence
             boosted == (group[best].confidence * 11) \div 10
         IN  Merged([group[best] EXCEPT
                        !.confidence = IF boosted > 100 THEN 100 ELSE boosted],
                    [merged_count |-> Len(group), merged_transitions |-> group])

\* The loop of merge_close_transitions on a sequence sorted by time: a transition less
\* than min_gap_seconds after the previous one joins its group.
RECURSIVE MergeGroups(_, _, _)
MergeGroups(trs, i, group) ==
    IF i > Len(trs) THEN <<_merge_transition_group(group)>>
    ELSE IF trs[i].transition_time - group[Len(group)].transition_time < min_gap_seconds
         THEN MergeGroups(trs, i + 1, Append(group, trs[i]))
         ELSE <<_merge_transition_group(group)>> \o MergeGroups(trs, i + 1, <<trs[i]>>)

\* merge_close_transitions with the metadata of every returned transition.
MergeWithMetadata(trs) ==
    IF Len(trs) <= 1 THEN [k \in DOMAIN trs |-> Merged(trs[k], NULL)]
    ELSE MergeGroups(trs, 2, <<trs[1]>>)

merge_close_transitions(trs) ==
    [k \in DOMAIN MergeWithMetadata(trs) |-> MergeWithMetadata(trs)[k].transition]

\* validate_transitions: those inside the window with enough confidence.
validate_transitions(trs, start_time, end_time) ==
    {trs[k] : k \in {j \in DOMAIN trs :
                        /\ start_time <= trs[j].transition_time
                        /\ trs[j].transition_time <= end_time
                        /\ trs[j].confidence >= audio_min_confidence}}

\* BasePELTTransitionDetector.detect_transitions on the rows fetched for the window.
detect_transitions(data, start_time, end_time) ==
    IF data = {} THEN {}
    ELSE validate_transitions(
             merge_close_transitions(
                 AllPeriodTransitions(detect_collection_periods(Sorted(data)), 1, end_time)),
             start_time, end_time)

----------------------------------------------------------------------------
(* sources/google/calendar/events/detector.py *)

calendar_min_confidence == 95

\* The datetimes the calendar processor writes into source_metadata.timing.
KnownDatetimes ==
    UNION {{_parse_event_time(CalendarPool[n].start).dt, _parse_event_time(CalendarPool[n].end).dt} :
              n \in {x \in CalendarNames : CalendarProcessed(CalendarPool[x])}}

\* datetime.fromisoformat: the datetime whose isoformat() the string is; an offset
\* in the string gives an aware value.
FromIsoFormat(str) == CHOOSE dt \in KnownDatetimes : IsoFormat(dt) = str

\* The start and end transitions of every event, at timing.start and timing.end.
EventBoundaries(rows) ==
    UNION {{Transition(FromIsoFormat(r.source_metadata.start), "changepoint", 1, "increase", 98),
            Transition(FromIsoFormat(r.source_metadata.end), "changepoint", 1, "decrease", 98)} :
              r \in rows}

\* CalendarEventsTransitionDetector.detect_transitions with a naive start_time: the
\* filter compares the transition's time with its tzinfo removed (replace), and the
\* report of what was filtered out compares the time as it is, which raises
\* TypeError for an aware one.
CalendarDetect(rows, start_time, end_time) ==
    LET transitions == EventBoundaries(rows)
        filtered == {t \in transitions :
                        /\ t.confidence >= calendar_min_confidence
                        /\ start_time <= t.transition_time.wall
                        /\ t.transition_time.wall <= end_time}
    IN  IF \E t \in transitions \ filtered : t.transition_time.aware
        THEN [raised |-> TRUE, transitions |-> {}]
        ELSE [raised |-> FALSE, transitions |-> filtered]

----------------------------------------------------------------------------
(* sources/base/scheduler/tasks/signal_analysis.py: the detection tasks *)

\* _get_ambient_signals: the rows of the signal inside the window.
_get_ambient_signals(start_time, end_time) ==
    {t \in levels : start_time <= t /\ t <= end_time}

TransitionRow(id, source_name, signal_name, tr) ==
    [id |-> id, source_name |-> source_name, signal_name |-> signal_name,
     transition_time |-> tr.transition_time, transition_type |-> tr.transition_type,
     change_magnitude |-> tr.change_magnitude,
     change_direction |-> tr.change_direction, confidence |-> tr.confidence]

\* The rows an insert conflicts with; a NULL change_direction never conflicts.
TransitionConflicts(tab, row) ==
    {r \in tab : /\ row.change_direction # "NULL"
                 /\ r.source_name = row.source_name
                 /\ r.signal_name = row.signal_name
                 /\ r.transition_time = row.transition_time
                 /\ r.transition_type = row.transition_type
                 /\ r.change_direction = row.change_direction}

\* _store_signal_transition: INSERT ... ON CONFLICT (...) DO UPDATE SET ...
_store_signal_transition(db, source_name, signal_name, tr) ==
    LET row == TransitionRow(db.next + 1, source_name, signal_name, tr)
    IN  IF TransitionConflicts(db.tab, row) = {}
        THEN Db(db.tab \cup {row}, db.next + 1)
        ELSE Db({IF r \in TransitionConflicts(db.tab, row)
                 THEN [r EXCEPT !.confidence = row.confidence,
                                !.change_magnitude = row.change_magnitude]
                 ELSE r : r \in db.tab},
                db.next)

RECURSIVE StoreAll(_, _, _, _)
StoreAll(db, source_name, signal_name, trs) ==
    IF trs = <<>> THEN db
    ELSE StoreAll(_store_signal_transition(db, source_name, signal_name, Head(trs)),
                  source_name, signal_name, Tail(trs))

NoDetect ==
    [start_time |-> 0, end_time |-> 0, outcome |-> "idle", data |-> {}, detected |-> {},
     raised |-> {}, caught |-> {}]

\* No detection run yet; some audio-level rows and some transitions stored.
DetectStart(rows, stored) ==
    /\ levels = rows
    /\ signal_transitions = stored
    /\ nextTransition = 0
    /\ detections = 0
    /\ lastDetect = NoDetect

\* A batch of ios_audio_level rows reaches the signals table.
AudioLevelsArrive ==
    \E batch \in SUBSET (SampleTimes \ levels) :
        /\ batch # {}
        /\ levels' = levels \cup batch
        /\ UNCHANGED <<signal_transitions, nextTransition, detections, lastDetect>>
        /\ UNCHANGED notDetect

\* The whole task for a window whose ends are timestamps of stored rows.  It works in
\* one session; returning without commit closes the session and rolls it back.  The
\* store loop first prints transition.from_state, which the Transition dataclass
\* does not have: AttributeError, rollback, and every retry ends the same way.
run_single_signal_transition_detection ==
    \E start_time \in levels : \E end_time \in levels :
        LET signal_data == _get_ambient_signals(start_time, end_time)
            transitions == detect_transitions(signal_data, start_time, end_time)
        IN  /\ detections < MaxDetections
            /\ start_time <= end_time
            /\ detections' = detections + 1
            /\ lastDetect' = [start_time |-> start_time, end_time |-> end_time,
                              outcome |-> IF signal_data = {} THEN "no_data"
                                          ELSE IF transitions = {} THEN "no_transitions"
                                          ELSE "raised",
                              data |-> signal_data, detected |-> transitions,
                              raised |-> {}, caught |-> {}]
            /\ UNCHANGED <<levels, signal_transitions, nextTransition>>
            /\ UNCHANGED notDetect

\* The active signals of the day with a detector configured.
DaySignals == {"ios_audio_level", "google_calendar_events", "ios_sleep", "strava_activities"}

SourceOf(signal_name) ==
    IF signal_name = "google_calendar_events" THEN "google"
    ELSE IF signal_name = "strava_activities" THEN "strava" ELSE "ios"

\* The windows of whole-day runs, in seconds: the day, and a custom range to 14:30.
DayWindows == {<<0, 86399>>, <<0, 52200>>}

\* The loop body of start_transition_detection for one signal: no data, the
\* detector's transitions, an ImportError or AttributeError (caught by the loop), or
\* any other exception (not caught).  SleepTransitionDetector takes no config
\* argument, so detector_class(config=signal) raises TypeError; the strava detector
\* imports a name its module does not define, an ImportError.
DayDetect(signal_name, start_time, end_time, others) ==
    IF signal_name = "ios_audio_level"
    THEN LET data == _get_ambient_signals(start_time, end_time)
         IN  [kind |-> IF data = {} THEN "no_data" ELSE "ok",
              transitions |-> detect_transitions(data, start_time, end_time)]
    ELSE IF signal_name = "google_calendar_events"
    THEN LET rows == {r \in signals : /\ r.signal_name = signal_name
                                      /\ start_time <= 60 * r.timestamp
                                      /\ 60 * r.timestamp <= end_time}
             out == CalendarDetect(rows, start_time \div 60, end_time \div 60)
         IN  [kind |-> IF rows = {} THEN "no_data" ELSE IF out.raised THEN "raised" ELSE "ok",
              transitions |-> {[tr EXCEPT !.transition_time = 60 * DbTimestamp(@)] :
                                  tr \in out.transitions}]
    ELSE [kind |-> IF signal_name \notin others THEN "no_data"
                   ELSE IF signal_name = "ios_sleep" THEN "raised" ELSE "caught",
          transitions |-> {}]

\* The transitions of a set in the order of their times.
RECURSIVE TimeOrdered(_)
TimeOrdered(T) ==
    IF T = {} THEN <<>>
    ELSE LET first == CHOOSE tr \in T : \A o \in T : tr.transition_time <= o.transition_time
         IN  <<first>> \o TimeOrdered(T \ {first})

RECURSIVE StoreSignals(_, _, _)
StoreSignals(db, todo, out) ==
    IF todo = {} THEN db
    ELSE LET s == CHOOSE x \in todo : TRUE
         IN  StoreSignals(IF out[s].kind = "ok"
                          THEN StoreAll(db, SourceOf(s), s, TimeOrdered(out[s].transitions))
                          ELSE db,
                          todo \ {s}, out)

\* The whole task: the window's transitions of every signal are deleted and the
\* delete is committed; then every signal's transitions are detected and stored, and
\* committed at the end.  An exception the loop does not catch rolls back what was
\* stored, and every retry ends the same way.  inactive are the signals the query for
\* active signals leaves out at the time of the run (their stream is disabled, their
\* source is not active, or enabled_signals does not list them).
start_transition_detection ==
    \E w \in DayWindows : \E others \in SUBSET {"ios_sleep", "strava_activities"} :
      \E inactive \in SUBSET {"ios_audio_level"} :
        LET start_time == w[1]
            end_time == w[2]
            cleared == {r \in signal_transitions :
                           ~ (r.transition_time >= start_time /\ r.transition_time <= end_time)}
            out == [s \in DaySignals |->
                       IF s \in inactive THEN [kind |-> "inactive", transitions |-> {}]
                       ELSE DayDetect(s, start_time, end_time, others)]
            raised == {s \in DaySignals : out[s].kind = "raised"}
            stored == StoreSignals(Db(cleared, nextTransition), DaySignals, out)
        IN  /\ detections < MaxDetections
            /\ detections' = detections + 1
            /\ lastDetect' = [start_time |-> start_time, end_time |-> end_time,
                              outcome |-> IF raised = {} THEN "day_stored" ELSE "day_raised",
                              data |-> _get_ambient_signals(start_time, end_time),
                              detected |-> {[signal_name |-> s, tr |-> tr] :
                                               <<s, tr>> \in UNION {{s} \X out[s].transitions :
                                                   s \in {x \in DaySignals : out[x].kind = "ok"}}},
                              raised |-> raised,
                              caught |-> {s \in DaySignals : out[s].kind = "caught"},
                              inactive |-> inactive]
            /\ IF raised = {}
               THEN /\ signal_transitions' = stored.tab
                    /\ nextTransition' = stored.next
               ELSE /\ signal_transitions' = cleared
                    /\ UNCHANGED nextTransition
            /\ UNCHANGED levels
            /\ UNCHANGED notDetect

DetectNext ==
    \/ AudioLevelsArrive
    \/ run_single_signal_transition_detection
    \/ start_transition_detection

----------------------------------------------------------------------------
(* Claims about single-signal detection *)

\* The stored transitions of the signal inside the window of the last task, without
\* their ids.
StoredInWindow ==
    {Transition(r.transition_time, r.transition_type, r.change_magnitude,
                r.change_direction, r.confidence) :
        r \in {x \in signal_transitions :
                  /\ x.signal_name = "ios_audio_level"
                  /\ x.transition_time >= lastDetect.start_time
                  /\ x.transition_time <= lastDetect.end_time}}

\* C8: when a single-signal detection task has finished, the stored transitions of
\* that signal inside the task's window are exactly those detected from the data
\* the task read, and no row of an earlier run remains.
C8_NoStaleTransitions ==
    lastDetect.outcome \in {"no_transitions", "raised"} =>
        StoredInWindow = detect_transitions(lastDetect.data, lastDetect.start_time,
                                            lastDetect.end_time)

\* What a single-signal task does leave: the table as it was.
SingleRunChangesNothing ==
    [][lastDetect'.outcome \in {"no_data", "no_transitions", "raised"}
          => signal_transitions' = signal_transitions]_vars

\* The stored row of a detected transition.
StoredAs(d) ==
    \E r \in signal_transitions :
        /\ r.signal_name = d.signal_name
        /\ r.transition_time = d.tr.transition_time
        /\ r.transition_type = d.tr.transition_type
        /\ r.change_direction = d.tr.change_direction

DayRunDone == lastDetect.outcome \in {"day_stored", "day_raised"}

\* C18: when the detector of one signal fails in a whole-day run, the transitions of
\* every other signal are still detected and stored.
C18_FailingDetectorIsolated ==
    (DayRunDone /\ lastDetect.raised \cup lastDetect.caught # {})
        => \A d \in lastDetect.detected : StoredAs(d)

\* The failures the loop catches (ImportError, AttributeError) are isolated.
CaughtFailureIsolated ==
    (DayRunDone /\ lastDetect.raised = {}) => \A d \in lastDetect.detected : StoredAs(d)

\* A failure the loop does not catch leaves the window empty.
RaisedLeavesWindowEmpty ==
    lastDetect.outcome = "day_raised"
        => \A r \in signal_transitions :
               ~ (r.transition_time >= lastDetect.start_time
                  /\ r.transition_time <= lastDetect.end_time)

\* The stored transitions inside the window of the whole-day run a step performs.
InDayWindow ==
    {r \in signal_transitions : /\ r.transition_time >= lastDetect'.start_time
                                /\ r.transition_time <= lastDetect'.end_time}

\* A step is a whole-day run with the given outcome.
DayRunStep(outcome) == detections' = detections + 1 /\ lastDetect'.outcome = outcome

\* C32: a whole-day run replaces a window's transitions all-or-nothing: when the
\* run fails after it has started, the transitions stored for the window before the
\* run are still there.
C32_FailedDayRunKeepsTransitions ==
    [][DayRunStep("day_raised") => InDayWindow \subseteq signal_transitions']_vars

\* The part of C32 that holds: a failed run stores nothing and leaves the
\* transitions outside its window alone.
FailedDayRunStoresNothing ==
    [][DayRunStep("day_raised")
          => signal_transitions' = signal_transitions \ InDayWindow]_vars

\* The signals a whole-day run detected transitions for anew: those with data in the
\* window whose detector was loaded and returned.
Redetected ==
    {s \in DaySignals \ lastDetect'.inactive :
        DayDetect(s, lastDetect'.start_time, lastDetect'.end_time,
                  lastDetect'.raised \cup lastDetect'.caught).kind = "ok"}

\* C39: a whole-day run does not remove the stored transitions of a signal it does
\* not detect anew in the same run (an inactive signal, one without detector, without
\* data in the window, or whose detector could not be loaded).
C39_OtherSignalsKept ==
    [][DayRunStep("day_stored")
          => {r \in InDayWindow : r.signal_name \notin Redetected}
                 \subseteq signal_transitions']_vars

\* What the code does: after a completed whole-day run the window holds the
\* transitions of the signals detected in this run and no others.
WindowHoldsRedetectedOnly ==
    [][DayRunStep("day_stored")
          => \A r \in signal_transitions' :
                 (r.transition_time >= lastDetect'.start_time
                  /\ r.transition_time <= lastDetect'.end_time)
                     => r.signal_name \in Redetected]_vars

----------------------------------------------------------------------------
(* sources/base/scheduler/tasks/signal_analysis.py: generate_events_hdbscan     *)
(* Stored transition times are seconds after the UTC start of the local day;     *)
(* the task works on milliseconds.  Confidences and magnitudes are hundredths.   *)

MaxSegRuns == 2    \* generate_events_hdbscan tasks started in one behaviour

MaxTransitions == 3    \* transitions stored for the day

SegWorkers == {"w1", "w2"}

SegSignals == {"ios_audio_level", "ios_speed", "google_calendar_events"}

\* Values hash(signal_name) % 100 may take in a worker.
HashPool == {10, 60}

NoHash == [s \in SegSignals |-> 10]

\* The hashes tried; the calendar signal never comes within eps of the others.
HashChoices == {h \in [SegSignals -> HashPool] : h["google_calendar_events"] = 10}

target_date == "2025-05-03"

\* Midnight in America/Chicago on that date is 05:00 UTC.
UtcStartOfDay == 5 * 3600

start_of_day == 0
end_of_day == 86400 * 1000 - 1

target_min_events == 8
target_max_events == 24

\* The transitions that may be stored for the day.
TransitionPool ==
    {TransitionRow(101, "ios", "ios_audio_level",
                   Transition(1000, "data_gap", NULL, "NULL", 100)),
     TransitionRow(102, "ios", "ios_speed",
                   Transition(1200, "data_gap", NULL, "NULL", 100)),
     TransitionRow(103, "google", "google_calendar_events",
                   Transition(3600, "changepoint", 100, "increase", 98)),
     TransitionRow(104, "google", "google_calendar_events",
                   Transition(4200, "changepoint", 100, "decrease", 98)),
     TransitionRow(105, "ios", "ios_speed",
                   Transition(3600, "data_gap", NULL, "NULL", 100)),
     TransitionRow(106, "ios", "ios_audio_level",
                   Transition(80000, "data_gap", NULL, "NULL", 100))}

Ms(seconds) == seconds * 1000

Max(a, b) == IF a > b THEN a ELSE b
Min(a, b) == IF a < b THEN a ELSE b

\* trans_time.hour * 60 + trans_time.minute of the UTC timestamp.
MinuteOfDay(t) == ((t + UtcStartOfDay) % 86400) \div 60

\* The transitions within two minutes of t.
Nearby(t, T) ==
    {o \in T : /\ t.transition_time - 120 <= o.transition_time
               /\ o.transition_time <= t.transition_time + 120}

\* The six features of a transition, each multiplied by 600.
Features(t, T, h) ==
    <<10 * MinuteOfDay(t.transition_time),
      6 * h[t.signal_name],
      6 * (IF t.change_magnitude = NULL \/ t.change_magnitude = 0
           THEN 50 ELSE t.change_magnitude),
      6 * t.confidence,
      60 * Cardinality(Nearby(t, T)),
      150 * Cardinality({o.source_name : o \in Nearby(t, T)})>>

\* Euclidean distance at most eps = 0.3.
WithinEps(f, g) ==
    (f[1] - g[1]) * (f[1] - g[1]) + (f[2] - g[2]) * (f[2] - g[2])
    + (f[3] - g[3]) * (f[3] - g[3]) + (f[4] - g[4]) * (f[4] - g[4])
    + (f[5] - g[5]) * (f[5] - g[5]) + (f[6] - g[6]) * (f[6] - g[6]) <= 180 * 180

\* DBSCAN with min_samples = 2: every point with a neighbour is a core point, so a
\* cluster is a connected component of the eps graph and a lone point is noise.
RECURSIVE Component(_, _, _)
Component(S, T, h) ==
    LET N == S \cup {o \in T : \E t \in S : WithinEps(Features(t, T, h), Features(o, T, h))}
    IN  IF N = S THEN S ELSE Component(N, T, h)

RECURSIVE Totals(_, _)
Totals(C, base) ==
    IF C = {} THEN [weights |-> 0, weighted |-> 0]
    ELSE LET t == CHOOSE r \in C : TRUE
             rest == Totals(C \ {t}, base)
         IN  [weights |-> rest.weights + t.confidence,
              weighted |-> rest.weighted
                               + t.confidence * (Ms(t.transition_time) - base)]

\* Phase 3: a noise point stays a boundary of its own; a cluster becomes one boundary
\* at the confidence-weighted mean time with the mean confidence.
Boundary(C) ==
    LET first == CHOOSE t \in C : \A o \in C : t.transition_time <= o.transition_time
        base == Ms(first.transition_time)
        sums == Totals(C, base)
    IN  IF Cardinality(C) = 1
        THEN [timestamp |-> base, confidence |-> first.confidence,
              transition_count |-> 1, source_transitions |-> {first.id},
              kind |-> "noise"]
        ELSE [timestamp |-> base + sums.weighted \div sums.weights,
              confidence |-> sums.weights \div Cardinality(C),
              transition_count |-> Cardinality(C),
              source_transitions |-> {t.id : t \in C}, kind |-> "consolidated"]

\* boundaries.sort(key=timestamp); boundaries of equal time in some order.
RECURSIVE SortByTime(_)
SortByTime(B) ==
    IF B = {} THEN <<>>
    ELSE LET b == CHOOSE x \in B : \A y \in B : x.timestamp <= y.timestamp
         IN  <<b>> \o SortByTime(B \ {b})

Boundaries(T, h) == SortByTime({Boundary(Component({t}, T, h)) : t \in T})

\* Phase 4: scaled_max from the span of the boundaries.
ScaledMax(bs) ==
    LET span == bs[Len(bs)].timestamp - bs[1].timestamp
        seconds == span \div 1000
        short_min == Max(2, seconds \div 7200)
        long_min == Max(4, (target_min_events * seconds) \div 86400)
    IN  IF span < Ms(3600) THEN 2
        ELSE IF span < Ms(6 * 3600)
             THEN Min(6, Max(short_min + 1, seconds \div 3000))
             ELSE Max(long_min + 2, (target_max_events * seconds) \div 86400)

\* Phase 4: scaled_min, which the task computes and reports but never enforces.
ScaledMin(bs) ==
    LET span == bs[Len(bs)].timestamp - bs[1].timestamp
        seconds == span \div 1000
    IN  IF span < Ms(3600) THEN 1
        ELSE IF span < Ms(6 * 3600) THEN Max(2, seconds \div 7200)
             ELSE Max(4, (target_min_events * seconds) \div 86400)

RECURSIVE PowerBelow(_, _, _)
PowerBelow(n, p, k) == IF 2 * p > n THEN [p |-> p, k |-> k] ELSE PowerBelow(n, 2 * p, k + 1)

\* 10000 * ln(n) for n >= 1, from n = m * 2^k and the series of ln(m) in
\* (m - 1) / (m + 1).
Ln(n) ==
    LET pk == PowerBelow(n, 1, 0)
        z == ((n - pk.p) * 10000) \div (n + pk.p)
        z2 == (z * z) \div 10000
        z3 == (z2 * z) \div 10000
        z5 == (z3 * z2) \div 10000
        z7 == (z5 * z2) \div 10000
    IN  (693147 * pk.k) \div 100 + 2 * (z + z3 \div 3 + z5 \div 5 + z7 \div 7)

Importance(b1, b2) ==
    b1.confidence * b2.confidence * Ln((b2.timestamp - b1.timestamp) \div 1000 + 60)

Remove(s, i) == [k \in 1..(Len(s) - 1) |-> IF k < i THEN s[k] ELSE s[k + 1]]

\* The while loop: drop the less confident boundary of the first least important
\* adjacent pair until at most scaled_max remain.
RECURSIVE ReduceBoundaries(_, _)
ReduceBoundaries(bs, scaled_max) ==
    IF Len(bs) <= scaled_max THEN bs
    ELSE LET pairs == 1..(Len(bs) - 1)
             merge_idx == CHOOSE i \in pairs :
                 /\ \A j \in pairs : Importance(bs[i], bs[i + 1]) <= Importance(bs[j], bs[j + 1])
                 /\ \A j \in 1..(i - 1) :
                        Importance(bs[j], bs[j + 1]) > Importance(bs[i], bs[i + 1])
             drop == IF bs[merge_idx].confidence < bs[merge_idx + 1].confidence
                     THEN merge_idx ELSE merge_idx + 1
         IN  ReduceBoundaries(Remove(bs, drop), scaled_max)

Synthetic(timestamp) ==
    [timestamp |-> timestamp, confidence |-> 0, transition_count |-> 0,
     source_transitions |-> {}, kind |-> "synthetic"]

\* A variant of phase 5 that treats the start of the day like its end.
SymmetricEdges(bs) ==
    IF bs = <<>> THEN <<Synthetic(start_of_day), Synthetic(end_of_day)>>
    ELSE (IF /\ bs[1].timestamp - start_of_day > Ms(900)
             /\ bs[1].timestamp - start_of_day < Ms(14400)
          THEN <<Synthetic(start_of_day)>> ELSE <<>>)
         \o bs
         \o (IF /\ end_of_day - bs[Len(bs)].timestamp > Ms(900)
                /\ end_of_day - bs[Len(bs)].timestamp < Ms(14400)
             THEN <<Synthetic(end_of_day)>> ELSE <<>>)

\* Phase 5: the real boundaries, with the day's edges where the data is more than
\* 15 minutes from the start, or more than 15 minutes and less than 4 hours from the end.
AllBoundaries(bs) ==
    IF bs = <<>> THEN <<Synthetic(start_of_day), Synthetic(end_of_day)>>
    ELSE (IF bs[1].timestamp - start_of_day > Ms(900)
          THEN <<Synthetic(start_of_day)>> ELSE <<>>)
         \o bs
         \o (IF /\ end_of_day - bs[Len(bs)].timestamp > Ms(900)
                /\ end_of_day - bs[Len(bs)].timestamp < Ms(14400)
             THEN <<Synthetic(end_of_day)>> ELSE <<>>)

\* The seconds of the day of the first and the last real boundary of a call: around
\* 15 minutes and 4 hours from either edge, and in between.
EdgeSeconds ==
    {600, 900, 901, 14399, 14400, 20000, 50000, 71999, 72000, 80000, 85499, 85500, 86000}

\* A real boundary at a transition that no cluster took in; the transition's id is
\* its second of the day.
Real(seconds) ==
    [timestamp |-> Ms(seconds), confidence |-> 98, transition_count |-> 1,
     source_transitions |-> {seconds}, kind |-> "noise"]

\* The calls of phase 5: no boundary, one, or a first and a last one.
EdgeCalls ==
    {Call("all_boundaries", [boundaries |-> bs]) :
        bs \in {<<>>} \cup {<<Real(a)>> : a \in EdgeSeconds}
                \cup {<<Real(x[1]), Real(x[2])>> :
                         x \in {y \in EdgeSeconds \X EdgeSeconds : y[1] < y[2]}}}

EvalAllBoundaries ==
    /\ call.fn = "all_boundaries"
    /\ ~ call.done
    /\ call' = [call EXCEPT !.done = TRUE, !.result = AllBoundaries(call.args.boundaries)]
    /\ UNCHANGED notCall

Segments(ab) ==
    [i \in 1..(Len(ab) - 1) |->
        [segment_index |-> i - 1,
         start_time |-> ab[i].timestamp,
         end_time |-> ab[i + 1].timestamp,
         entry_confidence |-> ab[i].confidence,
         is_edge_segment |-> i = 1 \/ i = Len(ab) - 1]]

\* An edge segment shorter than five minutes is not stored.
Stored(segment) ==
    ~ (segment.is_edge_segment /\ segment.end_time - segment.start_time < Ms(300))

\* Phase 6: the values of the events row of a segment, without its id.
EventValues(segment, T) ==
    [date |-> target_date, cluster_id |-> segment.segment_index,
     start_time |-> segment.start_time, end_time |-> segment.end_time,
     core_density |-> segment.entry_confidence,
     cluster_size |-> Cardinality({t \in T : /\ segment.start_time <= Ms(t.transition_time)
                                             /\ Ms(t.transition_time) < segment.end_time})]

\* The rows a run inserts for the transitions T, in order.
EventPlan(T, h) ==
    LET bs == Boundaries(T, h)
        kept == SelectSeq(Segments(AllBoundaries(ReduceBoundaries(bs, ScaledMax(bs)))), Stored)
    IN  [k \in DOMAIN kept |-> EventValues(kept[k], T)]

EventsOn(date) == {r \in events : r.date = date}

Idle == [phase |-> "idle", run |-> 0, deleted |-> {}, todo |-> <<>>, inserted |-> {}]

NoSeg == [before |-> {}, deleted |-> {}, rows |-> {}]

SegStart(h) ==
    /\ events = {}
    /\ seg = [w \in SegWorkers |-> Idle]
    /\ segRuns = 0
    /\ lastSeg = NoSeg
    /\ hashOf = h

\* The task up to and including DELETE FROM events WHERE date = :target_date.  With
\* fewer than two transitions it returns before that.  The DELETE waits while another
\* open session holds a row it would delete, and does not see uncommitted rows.
generate_events_hdbscan(w) ==
    LET transitions == {t \in signal_transitions :
                           /\ Ms(t.transition_time) >= start_of_day
                           /\ Ms(t.transition_time) <= end_of_day}
        old == {r.id : r \in EventsOn(target_date)}
    IN  /\ seg[w].phase = "idle"
        /\ segRuns < MaxSegRuns
        /\ \A o \in SegWorkers \ {w} : seg[o].deleted \cap old = {}
        /\ segRuns' = segRuns + 1
        /\ seg' = IF Cardinality(transitions) < 2 THEN seg
                  ELSE [seg EXCEPT ![w] = [phase |-> "open", run |-> segRuns + 1,
                                           deleted |-> old,
                                           todo |-> EventPlan(transitions, hashOf),
                                           inserted |-> {}]]
        /\ UNCHANGED <<events, lastSeg, hashOf>>
        /\ UNCHANGED notSeg

\* A copy of the commit that makes the DELETE durable at once.
CommitDeleteFirst(w) ==
    {r \in events : r.id \notin seg[w].deleted}

\* What the table holds after db.commit(): without the rows the session deleted,
\* with the rows it inserted.
Committed(w) ==
    {r \in events : r.id \notin seg[w].deleted} \cup seg[w].inserted

\* uuid4(): an id no other row has, here the run and the position in the run.
EventId(w) == <<seg[w].run, Cardinality(seg[w].inserted) + 1>>

\* One INSERT INTO events.
InsertEvent(w) ==
    /\ seg[w].phase = "open"
    /\ seg[w].todo # <<>>
    /\ seg' = [seg EXCEPT ![w].todo = Tail(@),
                          ![w].inserted = @ \cup {[id |-> EventId(w)] @@ Head(seg[w].todo)}]
    /\ UNCHANGED <<events, segRuns, lastSeg, hashOf>>
    /\ UNCHANGED notSeg

\* db.commit() after the last INSERT, and the return.
CommitEvents(w) ==
    /\ seg[w].phase = "open"
    /\ seg[w].todo = <<>>
    /\ events' = Committed(w)
    /\ lastSeg' = [before |-> EventsOn(target_date), deleted |-> seg[w].deleted,
                   rows |-> seg[w].inserted]
    /\ seg' = [seg EXCEPT ![w] = Idle]
    /\ UNCHANGED <<segRuns, hashOf>>
    /\ UNCHANGED notSeg

\* An exception after the DELETE: db.rollback() and a result with success False.
RollbackEvents(w) ==
    /\ seg[w].phase = "open"
    /\ seg' = [seg EXCEPT ![w] = Idle]
    /\ UNCHANGED <<events, segRuns, lastSeg, hashOf>>
    /\ UNCHANGED notSeg

SegNext ==
    \E w \in SegWorkers :
        \/ generate_events_hdbscan(w)
        \/ InsertEvent(w)
        \/ CommitEvents(w)
        \/ RollbackEvents(w)

----------------------------------------------------------------------------
(* Claims about the edges of the day *)

\* Phase 5 has run on at least one real boundary.
EdgesReturned == call.fn = "all_boundaries" /\ call.done /\ call.args.boundaries # <<>>

GapFromStart == call.args.boundaries[1].timestamp - start_of_day

GapToEnd == end_of_day - call.args.boundaries[Len(call.args.boundaries)].timestamp

StartSynthesized == call.result[1] = Synthetic(start_of_day)

EndSynthesized == call.result[Len(call.result)] = Synthetic(end_of_day)

\* The boundaries of the result that are not synthetic are the real ones, in order.
RealKept == SelectSeq(call.result, LAMBDA b : b.kind # "synthetic") = call.args.boundaries

\* C38, as stated: a synthetic boundary is added at an edge of the day if and only if
\* the first (start edge) or last (end edge) real boundary is more than 15 minutes and
\* less than 4 hours from that edge.
C38_EdgeWithinFourHours ==
    EdgesReturned =>
        /\ StartSynthesized <=> (GapFromStart > Ms(900) /\ GapFromStart < Ms(14400))
        /\ EndSynthesized <=> (GapToEnd > Ms(900) /\ GapToEnd < Ms(14400))
        /\ RealKept

\* C38, amended: with at least one real boundary, a synthetic boundary is added at
\* the start of the day if and only if the first real boundary is more than 15
\* minutes after it, however far; one is added at the end of the day if and only if
\* the last real boundary is more than 15 minutes and less than 4 hours before it, and
\* otherwise the segments stop at the last real boundary.
C38_EdgeBoundaries ==
    EdgesReturned =>
        /\ StartSynthesized <=> GapFromStart > Ms(900)
        /\ EndSynthesized <=> (GapToEnd > Ms(900) /\ GapToEnd < Ms(14400))
        /\ RealKept
        /\ Len(call.result) = Len(call.args.boundaries)
                                  + (IF GapFromStart > Ms(900) THEN 1 ELSE 0)
                                  + (IF GapToEnd > Ms(900) /\ GapToEnd < Ms(14400) THEN 1 ELSE 0)

\* The data starts more than 4 hours into the day and ends more than 4 hours before
\* its end: the start of the day is added and the end is not.
C38_Witness ==
    /\ EdgesReturned
    /\ call.args.boundaries = <<Real(20000), Real(71999)>>
    /\ call.result = <<Synthetic(start_of_day), Real(20000), Real(71999)>>

----------------------------------------------------------------------------
(* Claims about generate_events_hdbscan *)

\* C9: every committed state of the events table holds, for the date, either the
\* complete set of rows of the previous run or the complete set of rows of the run
\* that committed last, never a partial or mixed set.
C9_AtomicRewrite == EventsOn(target_date) = lastSeg.rows

\* The part of C9 that holds: a run whose DELETE covered every row that was
\* committed for the date when it committed leaves exactly its own complete set, and
\* nothing is visible before its commit.
SerialRewriteAtomic ==
    {r.id : r \in lastSeg.before} = lastSeg.deleted => EventsOn(target_date) = lastSeg.rows

Disjoint(R) ==
    \A r1, r2 \in R : r1 # r2 => r1.end_time <= r2.start_time \/ r2.end_time <= r1.start_time

\* C10: the segments stored for a date are pairwise non-overlapping: of any two, one
\* ends no later than the other starts.
C10_NonOverlapping == Disjoint(EventsOn(target_date))

\* The part of C10 that holds: the segments one run inserts are pairwise
\* non-overlapping.
RunSegmentsDisjoint ==
    /\ Disjoint(lastSeg.rows)
    /\ \A w \in SegWorkers : Disjoint(seg[w].inserted)

\* The times of the first and the last stored transition of the day, in ms.
FirstData == Ms(CHOOSE t \in {r.transition_time : r \in signal_transitions} :
                    \A r \in signal_transitions : t <= r.transition_time)
LastData == Ms(CHOOSE t \in {r.transition_time : r \in signal_transitions} :
                   \A r \in signal_transitions : t >= r.transition_time)

\* The instants between the first and the last data at which a row of R starts or
\* ends, with the two ends themselves.
CutPoints(R) ==
    {x \in {FirstData, LastData} \cup {r.start_time : r \in R} \cup {r.end_time : r \in R} :
        FirstData <= x /\ x <= LastData}

\* No stretch of more than 60 s between the first and the last data is left without
\* a row of R over it.
CoversData(R) ==
    \A a, b \in CutPoints(R) :
        (a < b /\ b - a > Ms(60) /\ ~ \E x \in CutPoints(R) : a < x /\ x < b)
            => \E r \in R : r.start_time <= a /\ b <= r.end_time

\* C11: for a date with at least two transitions the rows a run has stored cover
\* [first_data, last_data] without holes: every gap of more than 60 s between the
\* segments is filled by an "unknown" row (cluster_id = -1).
C11_CoverageWithUnknownFill ==
    (Cardinality(signal_transitions) >= 2 /\ lastSeg.rows # {}) => CoversData(lastSeg.rows)

\* The task never writes an "unknown" row.
NoUnknownRows == \A r \in events : r.cluster_id # 0 - 1

\* The day has data over at least six hours, so the band is scaled from the
\* full-day target of 8 to 24.
FullDataDay ==
    /\ Cardinality(signal_transitions) >= 2
    /\ LastData - FirstData >= Ms(6 * 3600)

\* C12: on a full-data day the number of segments a run stores is within the scaled
\* band: at least scaled_min and at most scaled_max.
C12_SegmentCountInBand ==
    (FullDataDay /\ lastSeg.rows # {}) =>
        LET bs == Boundaries(signal_transitions, hashOf)
        IN  /\ ScaledMin(bs) <= Cardinality(lastSeg.rows)
            /\ Cardinality(lastSeg.rows) <= ScaledMax(bs)

\* The part of C12 that holds: the boundaries kept after the reduction are at most
\* scaled_max, so a run stores at most scaled_max + 1 segments.
AtMostScaledMaxPlusOne ==
    (Cardinality(signal_transitions) >= 2 /\ lastSeg.rows # {}) =>
        Cardinality(lastSeg.rows) <= ScaledMax(Boundaries(signal_transitions, hashOf)) + 1

\* C25: every segment the day segmenter has persisted has end_time strictly greater
\* than start_time.
C25_SegmentsHavePositiveLength ==
    \A r \in EventsOn(target_date) : r.end_time > r.start_time

\* The part of C25 that holds: no stored segment ends before it starts, and an empty
\* one lies between two boundaries of the same time.
SegmentsNeverNegative ==
    \A r \in EventsOn(target_date) :
        /\ r.end_time >= r.start_time
        /\ r.end_time = r.start_time
               => \E t1, t2 \in signal_transitions :
                      /\ t1 # t2
                      /\ t1.transition_time = t2.transition_time
                      /\ Ms(t1.transition_time) = r.start_time

\* The runs whose rows the table holds for a date (a row's id starts with its run).
RunsOf(R) == {r.id[1] : r \in R}

OpenRuns == {w \in SegWorkers : seg[w].phase = "open"}

\* C26: the runs of the segmenter for one date are serialized: two of them never
\* interleave, and the events rows of the date always come from exactly one run.
C26_RunsSerialized ==
    /\ Cardinality(OpenRuns) <= 1
    /\ Cardinality(RunsOf(EventsOn(target_date))) <= 1

\* The part of C26 that holds: a run whose DELETE covered every row committed for
\* the date when it committed leaves the rows of one run.
UncontendedRunLeavesOneRun ==
    {r.id : r \in lastSeg.before} = lastSeg.deleted
        => Cardinality(RunsOf(EventsOn(target_date))) <= 1

----------------------------------------------------------------------------
(* sources/base/scheduler/tasks/sync_sources.py: should_sync as a function       *)
(* Times are minutes after 2025-05-03T00:00Z.                                     *)

\* The 5-field expressions tried; croniter rejects the last one.
CronSchedules == {"0 */3 * * *", "*/30 * * * *", "every 3 hours"}

\* The minutes and hours a valid expression fires at (every day, month, weekday).
CronFields(expr) ==
    IF expr = "0 */3 * * *" THEN [minute |-> {0}, hour |-> {h \in 0..23 : h % 3 = 0}]
    ELSE [minute |-> {0, 30}, hour |-> 0..23]

CronValid(expr) == expr \in {"0 */3 * * *", "*/30 * * * *"}

Fires(expr, t) ==
    /\ (t % 60) \in CronFields(expr).minute
    /\ ((t \div 60) % 24) \in CronFields(expr).hour

\* A variant of get_next that may return the start time itself.
GetNextFrom(expr, start) ==
    CHOOSE t \in start..(start + 1440) :
        Fires(expr, t) /\ \A u \in start..(t - 1) : ~ Fires(expr, u)

\* croniter(expr, start).get_next(): the first firing strictly after start.
croniter_get_next(expr, start) ==
    CHOOSE t \in (start + 1)..(start + 1440) :
        Fires(expr, t) /\ \A u \in (start + 1)..(t - 1) : ~ Fires(expr, u)

\* should_sync(stream, now) for a stream row [cron_schedule, last_ingestion_at].
ShouldSync(stream, at) ==
    IF stream.cron_schedule = "" THEN FALSE
    ELSE IF stream.last_ingestion_at = NULL THEN TRUE
    ELSE IF ~ CronValid(stream.cron_schedule) THEN FALSE
    ELSE croniter_get_next(stream.cron_schedule, stream.last_ingestion_at) <= at

\* last_ingestion_at and now values tried: around 12:00, 15:00 and 15:30.
CronTimes == {0, 720, 721, 899, 900, 901, 929, 930}

CronCalls ==
    {Call("should_sync", <<[cron_schedule |-> c, last_ingestion_at |-> l], n>>) :
        c \in CronSchedules \cup {""}, l \in CronTimes \cup {NULL}, n \in CronTimes}

EvalShouldSync ==
    /\ call.fn = "should_sync"
    /\ ~ call.done
    /\ call' = [call EXCEPT !.done = TRUE, !.result = ShouldSync(call.args[1], call.args[2])]
    /\ UNCHANGED notCall

----------------------------------------------------------------------------
(* Claims about should_sync *)

\* The stream and the clock of a finished should_sync call.
CronStream == call.args[1]
CronNow == call.args[2]
CronReturned == call.fn = "should_sync" /\ call.done

\* C13 as stated: should_sync is true if and only if the stream has a next firing
\* after last_ingestion_at and that firing is not after now.
C13_TrueIffNextFiringDue ==
    CronReturned =>
        (call.result <=>
            /\ CronValid(CronStream.cron_schedule)
            /\ CronStream.last_ingestion_at # NULL
            /\ \E t \in (CronStream.last_ingestion_at + 1)..CronNow :
                   Fires(CronStream.cron_schedule, t))

\* C13, amended: for a stream with a valid cron schedule that has been synced before,
\* should_sync is true if and only if the schedule fires at some time after
\* last_ingestion_at and not after now; a stream that was never synced is due at once
\* whatever its schedule; a stream without a schedule, or with one that does not
\* parse, is never due.  With cron 0 */3 * * *, last_ingestion_at 12:00 and now 15:01
\* the result is true.
C13_ShouldSync ==
    CronReturned =>
        /\ CronStream.cron_schedule = "" => ~ call.result
        /\ (CronStream.cron_schedule # "" /\ CronStream.last_ingestion_at = NULL)
               => call.result
        /\ (CronStream.cron_schedule # "" /\ CronStream.last_ingestion_at # NULL)
               => (call.result <=>
                      /\ CronValid(CronStream.cron_schedule)
                      /\ \E t \in (CronStream.last_ingestion_at + 1)..CronNow :
                             Fires(CronStream.cron_schedule, t))
        /\ (/\ CronStream = [cron_schedule |-> "0 */3 * * *", last_ingestion_at |-> 720]
            /\ CronNow = 901) => call.result

\* The example of C13 has been evaluated and has returned true.
C13_Witness ==
    /\ CronReturned
    /\ CronStream = [cron_schedule |-> "0 */3 * * *", last_ingestion_at |-> 720]
    /\ CronNow = 901
    /\ call.result

----------------------------------------------------------------------------
(* process_stream_batch tasks of the calendar stream running at the same time *)

BatchWorkers == {"b1", "b2"}

\* retry_kwargs={'max_retries': 3}
batch_max_retries == 3

\* A task: the raw batch it was sent for, the next entry of the events loop, the
\* rows its session has written and not committed, how far it has come, and the
\* status of the pipeline_activities row its current attempt inserted and committed
\* before processing.
BatchTask(batch, state) ==
    [batch |-> batch, pos |-> 1, pending |-> <<>>, state |-> state, retries |-> 0,
     audit |-> IF state = "none" THEN "none" ELSE "running"]

\* The status of the attempt's pipeline_activities row after the except block.  The
\* block executes its UPDATE ... SET status = 'failed' and commits on the session the
\* error came from, without a rollback: after an error of the database the
\* transaction is aborted, the UPDATE is refused and its error leaves the block, and
\* db.close() in the finally clause rolls back.
AuditAfterError(audit, aborted) ==
    IF aborted THEN audit ELSE "failed"

NoTasks == [w \in BatchWorkers |-> BatchTask(<<>>, "none")]

TasksStart(t) == tasks = t

\* The row one pass of the loop body of _process_events executes an INSERT for
\* (none for an event the loop skips).
EventRows(event) ==
    UNION {CalendarEventStep(Db({}, 0), event, s).tab : s \in CalendarSignals}

\* The rows of the unique index a session holds a lock on until it commits.
PendingRows(w) == {tasks[w].pending[i] : i \in DOMAIN tasks[w].pending}

AtInsert(w) == tasks[w].state = "running" /\ tasks[w].pos <= Len(tasks[w].batch)

\* An INSERT ... ON CONFLICT waits for the transaction that wrote a row with its key
\* and has not finished.
Blocked(w) ==
    /\ AtInsert(w)
    /\ \E r \in EventRows(CalendarPool[tasks[w].batch[tasks[w].pos]]) :
           \E w2 \in BatchWorkers \ {w} : \E p \in PendingRows(w2) : SameKey(r, p)

\* One pass of the events loop: the INSERT is executed in the task's transaction.
ExecuteInsert(w) ==
    /\ AtInsert(w)
    /\ ~ Blocked(w)
    /\ LET rows == EventRows(CalendarPool[tasks[w].batch[tasks[w].pos]])
       IN  tasks' = [tasks EXCEPT ![w].pos = @ + 1,
                                  ![w].pending = IF rows = {} THEN @
                                                 ELSE Append(@, CHOOSE r \in rows : TRUE)]
    /\ UNCHANGED <<ingestVars, syncVars, detectVars, segVars, call, tokenVars>>

RECURSIVE ApplyPending(_, _)
ApplyPending(db, pending) ==
    IF pending = <<>> THEN db
    ELSE ApplyPending(InsertOnConflictUpdate(db, Head(pending)), Tail(pending))

\* db.commit() after the loops: the session's statements take effect, in their order.
CommitSignals(w) ==
    /\ tasks[w].state = "running"
    /\ tasks[w].pos > Len(tasks[w].batch)
    /\ LET out == ApplyPending(Db(signals, nextUuid), tasks[w].pending)
       IN  /\ signals' = out.tab
           /\ nextUuid' = out.next
    /\ tasks' = [tasks EXCEPT ![w].state = "done", ![w].pending = <<>>,
                              ![w].audit = "completed"]
    /\ UNCHANGED <<lastRun, snap, phase, runs, prev, micEnabled>>
    /\ UNCHANGED <<syncVars, detectVars, segVars, call, tokenVars>>

\* Two sessions waiting for each other: the database ends one of them with an
\* error, the handler re-raises it and the task is retried (autoretry_for).
DeadlockAbort(w) ==
    /\ Blocked(w)
    /\ \A w2 \in BatchWorkers : Blocked(w2)
    /\ tasks' = [tasks EXCEPT ![w].state = IF tasks[w].retries < batch_max_retries
                                           THEN "retry" ELSE "failed",
                              ![w].pending = <<>>,
                              ![w].audit = AuditAfterError(@, TRUE)]
    /\ UNCHANGED <<ingestVars, syncVars, detectVars, segVars, call, tokenVars>>

\* The retry is delivered after the retry delay (minutes), when the transaction that
\* was waiting has long had its lock and has finished.
RetryBatch(w) ==
    /\ tasks[w].state = "retry"
    /\ \A w2 \in BatchWorkers \ {w} : tasks[w2].state # "running"
    /\ tasks' = [tasks EXCEPT ![w].state = "running", ![w].pos = 1,
                              ![w].retries = @ + 1, ![w].audit = "running"]
    /\ UNCHANGED <<ingestVars, syncVars, detectVars, segVars, call, tokenVars>>

BatchNext ==
    \E w \in BatchWorkers :
        \/ ExecuteInsert(w)
        \/ CommitSignals(w)
        \/ DeadlockAbort(w)
        \/ RetryBatch(w)

----------------------------------------------------------------------------
(* Claims about concurrent batches *)

BothDone == \A w \in BatchWorkers : tasks[w].state = "done"

\* A table's rows without their generated ids.
Content(tab) == {[r EXCEPT !.id = 0] : r \in tab}

\* The table after the two batches have been processed one after the other.
SerialOrder(first, second) ==
    _process_events(_process_events(Db({}, 0), tasks[first].batch, CalendarSignals),
                    tasks[second].batch, CalendarSignals).tab

NoDuplicateKeys == \A r1, r2 \in signals : SameKey(r1, r2) => r1 = r2

\* C14: whatever the interleaving of two batch tasks of one stream, the signals table
\* has no two rows with the same (source_name, signal_name, idempotency_key), and
\* it holds what processing the two batches in either order would have left.
C14_OrderIndependentBatches ==
    BothDone =>
        /\ NoDuplicateKeys
        /\ Content(signals) = Content(SerialOrder("b1", "b2"))
        /\ Content(signals) = Content(SerialOrder("b2", "b1"))

\* Every interleaving leaves what one of the two serial orders leaves.
BatchesSerializable ==
    BothDone => \/ Content(signals) = Content(SerialOrder("b1", "b2"))
                \/ Content(signals) = Content(SerialOrder("b2", "b1"))

\* The unique index holds throughout.
NeverDuplicateKeys == NoDuplicateKeys

\* Two batches with no key in common leave the same table in every interleaving.
DisjointBatchesCommute ==
    (/\ BothDone
     /\ \A i \in DOMAIN tasks["b1"].batch : \A j \in DOMAIN tasks["b2"].batch :
            \A r1 \in EventRows(CalendarPool[tasks["b1"].batch[i]]) :
                \A r2 \in EventRows(CalendarPool[tasks["b2"].batch[j]]) : ~ SameKey(r1, r2))
        => /\ Content(signals) = Content(SerialOrder("b1", "b2"))
           /\ Content(signals) = Content(SerialOrder("b2", "b1"))

\* The attempt of worker w has ended: it returned, or it raised and is retried or
\* given up.
AttemptEnded(w) == tasks[w].state \in {"done", "retry", "failed"}

\* C40: every pipeline_activities row opened with status running is closed as
\* completed or failed by the time the attempt that opened it ends, for
\* process_stream_batch and for sync_stream.
C40_AuditRowClosedWithAttempt ==
    /\ \A w \in BatchWorkers : AttemptEnded(w) => tasks[w].audit \in {"completed", "failed"}
    /\ \A a \in activities :
           a.status = "running" => \E t \in running : a.id = <<t.id, t.retries>>

\* The part of C40 that holds: an attempt that returns has closed its row as completed.
ReturnedAttemptClosedRow ==
    \A w \in BatchWorkers : tasks[w].state = "done" => tasks[w].audit = "completed"

\* An attempt ended by an error of the database leaves its row running.
AbortedAttemptLeavesRowRunning ==
    \A w \in BatchWorkers : tasks[w].state \in {"retry", "failed"} => tasks[w].audit = "running"

----------------------------------------------------------------------------
(* BasePELTTransitionDetector.detect_transitions as a function of its arguments *)

\* The timestamps, in seconds, the samples of a call are taken from: a run of seven,
\* a run of two more than gap_threshold_seconds later, and a single late sample.
DetectorTimes == {0, 100, 200, 300, 400, 500, 600, 1300, 1400, 2100}

\* The changepoints a call may carry: times inside the first run, with one of the
\* values _calculate_changepoint_confidence returns.
PeltChoices ==
    {{[time |-> t, confidence |-> c] : t \in T} : T \in SUBSET {300, 400}, c \in {85, 95}}

\* The calls: a window and samples inside it, as _get_ambient_signals fetches them.
DetectorCalls ==
    {Call("detect_transitions",
          [data |-> d, changepoints |-> cps, start_time |-> st, end_time |-> en]) :
        <<st, en, d, cps>> \in
            {w \in {0, 300} \X {1400, 2100, 2800} \X (SUBSET DetectorTimes) \X PeltChoices :
                \A t \in w[3] : w[1] <= t /\ t <= w[2]}}

EvalDetectTransitions ==
    /\ call.fn = "detect_transitions"
    /\ ~ call.done
    /\ call' = [call EXCEPT !.done = TRUE,
                            !.result = detect_transitions(call.args.data, call.args.start_time,
                                                          call.args.end_time)]
    /\ UNCHANGED notCall

----------------------------------------------------------------------------
(* Calls of merge_close_transitions *)

MaxMerged == 3        \* transitions handed to merge_close_transitions

\* The times, in seconds, and the confidences of the transitions to merge.
MergeTimes == {0, 200, 300, 500, 900}

MergeConfidences == {80, 95}

\* The calls: up to MaxMerged changepoints at different times, in time order.
MergeCalls ==
    {Call("merge_close_transitions",
          [transitions |-> [k \in DOMAIN Sorted(T) |->
                               Transition(Sorted(T)[k], "changepoint", 50, "increase",
                                          f[Sorted(T)[k]])]]) :
        <<T, f>> \in {x \in (SUBSET MergeTimes) \X [MergeTimes -> MergeConfidences] :
                         Cardinality(x[1]) <= MaxMerged}}

EvalMerge ==
    /\ call.fn = "merge_close_transitions"
    /\ ~ call.done
    /\ call' = [call EXCEPT !.done = TRUE,
                            !.result = MergeWithMetadata(call.args.transitions)]
    /\ UNCHANGED notCall

----------------------------------------------------------------------------
(* Calls of the calendar detector *)

\* The windows of the calendar calls, in minutes of the day (naive UTC).
CalendarWindows == {<<540, 870>>, <<780, 960>>, <<0, 1439>>}

\* The calls: the rows the calendar processor wrote for some batch that the task
\* fetches for the window (timestamp inside it).
CalendarDetectorCalls ==
    {Call("calendar_detect",
          [rows |-> {r \in _process_events(Db({}, 0), b, CalendarSignals).tab :
                        w[1] <= r.timestamp /\ r.timestamp <= w[2]},
           start_time |-> w[1], end_time |-> w[2]]) :
        b \in Batches(CalendarNames, MaxBatchLen), w \in CalendarWindows}

EvalCalendarDetect ==
    /\ call.fn = "calendar_detect"
    /\ ~ call.done
    /\ call' = [call EXCEPT !.done = TRUE,
                            !.result = CalendarDetect(call.args.rows, call.args.start_time,
                                                      call.args.end_time)]
    /\ UNCHANGED notCall

----------------------------------------------------------------------------
(* sources/ios/healthkit/sleep/detector.py; times in minutes *)

sleep_min_confidence == 85
min_value_duration_minutes == 5
gap_threshold_minutes == 30

\* _calculate_confidence: the signal's confidence with a boost for a lasting value.
SleepConfidence(signal, value_duration_minutes) ==
    LET boost == IF value_duration_minutes >= 30 THEN 5
                 ELSE IF value_duration_minutes >= 15 THEN 3 ELSE 0
    IN  Min(signal.confidence + boost, 99)

\* One pass of the loop of detect_transitions; "" is no value (None or empty).
SleepStep(st, signal) ==
    LET gap == /\ st.previous_timestamp # NULL
               /\ signal.timestamp - st.previous_timestamp > gap_threshold_minutes
        gapOut == IF gap /\ st.previous_value # ""
                  THEN {Transition(st.previous_timestamp, "data_gap", NULL, "NULL", 100)}
                  ELSE {}
        previous_value == IF gap THEN "" ELSE st.previous_value
        value_start_time == IF gap THEN NULL ELSE st.value_start_time
        changed == previous_value # "" /\ signal.signal_value # previous_value
        value_duration_minutes == signal.timestamp - value_start_time
        changeOut == IF changed /\ value_duration_minutes >= min_value_duration_minutes
                     THEN {Transition(signal.timestamp, "categorical_change", NULL, "NULL",
                                      SleepConfidence(signal, value_duration_minutes))}
                     ELSE {}
    IN  IF signal.signal_value = "" THEN st
        ELSE [out |-> st.out \cup gapOut \cup changeOut,
              previous_value |-> signal.signal_value,
              previous_timestamp |-> signal.timestamp,
              value_start_time |-> IF changed \/ previous_value = ""
                                   THEN signal.timestamp ELSE value_start_time]

RECURSIVE SleepLoop(_, _)
SleepLoop(st, sorted_signals) ==
    IF sorted_signals = <<>> THEN st
    ELSE SleepLoop(SleepStep(st, Head(sorted_signals)), Tail(sorted_signals))

\* SleepTransitionDetector.detect_transitions: the loop's transitions, as they are.
SleepDetect(data, start_time, end_time) ==
    LET times == Sorted({x.timestamp : x \in data})
        sorted_signals == [k \in DOMAIN times |-> CHOOSE x \in data : x.timestamp = times[k]]
    IN  SleepLoop([out |-> {}, previous_value |-> "", previous_timestamp |-> NULL,
                   value_start_time |-> NULL], sorted_signals).out

SleepTimes == {0, 10, 30, 70}

\* The calls: at each time no sample or one, over the window that holds them all.
SleepDetectorCalls ==
    {Call("sleep_detect",
          [signals |-> {[timestamp |-> t, signal_value |-> f[t][1], confidence |-> f[t][2]] :
                           t \in {x \in SleepTimes : f[x][1] # "none"}},
           start_time |-> 0, end_time |-> 70]) :
        f \in [SleepTimes -> ({"asleep", "awake"} \X {70, 90}) \cup {<<"none", 0>>}]}

\* The stages of a night, in minutes: asleep_core for 40, asleep_rem for 25, awake
\* for 5 and asleep_core for 30.
StageAt(t) ==
    IF t < 40 THEN "asleep_core" ELSE IF t < 65 THEN "asleep_rem"
    ELSE IF t < 70 THEN "awake" ELSE "asleep_core"

\* The night as the HealthKit processor stores it, one row for each sleep sample at
\* the sample's start (_process_sleep), and as a series with a row every 5 minutes.
SleepExampleCalls ==
    {Call("sleep_detect",
          [signals |-> {[timestamp |-> t, signal_value |-> StageAt(t), confidence |-> 95] :
                           t \in T},
           start_time |-> 0, end_time |-> 100]) :
        T \in {{0, 40, 65, 70}, {5 * k : k \in 0..19}}}

EvalSleepDetect ==
    /\ call.fn = "sleep_detect"
    /\ ~ call.done
    /\ call' = [call EXCEPT !.done = TRUE,
                            !.result = SleepDetect(call.args.signals, call.args.start_time,
                                                   call.args.end_time)]
    /\ UNCHANGED notCall

DetectorNext ==
    \/ EvalDetectTransitions
    \/ EvalMerge
    \/ EvalCalendarDetect
    \/ EvalSleepDetect

----------------------------------------------------------------------------
(* Claims about detect_transitions *)

DetectReturned == call.fn = "detect_transitions" /\ call.done

\* The last samples of the runs that are followed by a gap and another run.
GapStarts ==
    {t \in call.args.data :
        \E u \in call.args.data :
            /\ u - t > gap_threshold_seconds
            /\ \A v \in call.args.data : ~ (t < v /\ v < u)}

DataGaps == {tr \in call.result : tr.transition_type = "data_gap"}

DataGapTimes == {tr.transition_time : tr \in DataGaps}

\* The last sample, when the window goes on for more than the threshold after it.
TrailingStop ==
    {t \in call.args.data :
        /\ \A u \in call.args.data : u <= t
        /\ call.args.end_time - t > gap_threshold_seconds}

\* The example of C15, in seconds: samples up to 600, none until 1300, then to 1400.
ExampleSamples == {0, 100, 200, 300, 400, 500, 600, 1300, 1400}

MergeReturned == call.fn = "merge_close_transitions" /\ call.done

\* The transitions handed to the call whose result k stands for: those from the
\* survivor's group, the maximal run around it in which each transition comes less
\* than min_transition_gap after the one before.
CloseTo(trs, i, j) ==
    \A k \in (Min(i, j) + 1)..Max(i, j) :
        trs[k].transition_time - trs[k - 1].transition_time < min_gap_seconds

GroupOf(trs, i) == {j \in DOMAIN trs : CloseTo(trs, i, j)}

\* The index, in the argument, of the transition a result stands for.
SurvivorOf(trs, m) ==
    CHOOSE i \in DOMAIN trs : trs[i].transition_time = m.transition.transition_time

\* C35: merge_close_transitions merges consecutive transitions closer together than
\* min_transition_gap (300 s) into one: every group is returned as its member of
\* highest confidence, with merged_count and merged_transitions in its metadata and
\* its confidence multiplied by 1.1, at most 1.0; a transition with no close
\* neighbour is returned as it is.
C35_CloseTransitionsMerged ==
    MergeReturned =>
        LET trs == call.args.transitions
            out == call.result
        IN  /\ \A i \in DOMAIN trs :
                   Cardinality({k \in DOMAIN out :
                                   SurvivorOf(trs, out[k]) \in GroupOf(trs, i)}) = 1
            /\ \A k \in DOMAIN out :
                   LET i == SurvivorOf(trs, out[k])
                       group == GroupOf(trs, i)
                   IN  /\ \A j \in group : trs[j].confidence <= trs[i].confidence
                       /\ [out[k].transition EXCEPT !.confidence = 0]
                              = [trs[i] EXCEPT !.confidence = 0]
                       /\ IF Cardinality(group) = 1
                          THEN out[k] = Merged(trs[i], NULL)
                          ELSE /\ out[k].transition.confidence
                                      = Min(100, (trs[i].confidence * 11) \div 10)
                               /\ out[k].metadata.merged_count = Cardinality(group)
                               /\ {out[k].metadata.merged_transitions[n] :
                                       n \in DOMAIN out[k].metadata.merged_transitions}
                                      = {trs[j] : j \in group}

\* Three transitions were merged into one; the best member was not the first, and
\* its raised confidence was capped.
C35_Witness ==
    /\ MergeReturned
    /\ Len(call.args.transitions) = 3
    /\ Len(call.result) = 1
    /\ call.args.transitions[1].confidence = 80
    /\ call.args.transitions[2].confidence = 95
    /\ call.result[1].transition.transition_time = call.args.transitions[2].transition_time
    /\ call.result[1].transition.confidence = 100
    /\ call.result[1].metadata.merged_count = 3

SleepReturned == call.fn = "sleep_detect" /\ call.done

\* The sample before x among the samples of the call.
Before(x) ==
    {y \in call.args.signals :
        /\ y.timestamp < x.timestamp
        /\ \A z \in call.args.signals : ~ (y.timestamp < z.timestamp /\ z.timestamp < x.timestamp)}

\* Since when the value of sample y has persisted: the first sample of the run of
\* equal values that ends with y.
PersistedSince(y) ==
    CHOOSE t \in {z.timestamp : z \in call.args.signals} :
        /\ t <= y.timestamp
        /\ \A z \in call.args.signals :
               (t <= z.timestamp /\ z.timestamp <= y.timestamp)
                   => z.signal_value = y.signal_value
        /\ \A z \in call.args.signals :
               (z.timestamp < t /\ \A v \in call.args.signals :
                                      ~ (z.timestamp < v.timestamp /\ v.timestamp < t))
                   => z.signal_value # y.signal_value

\* The times at which the value differs from the previous value and the previous
\* value has persisted for at least min_value_duration minutes.
LastingChanges ==
    {x.timestamp : x \in {s \in call.args.signals :
        \E y \in Before(s) :
            /\ s.signal_value # y.signal_value
            /\ s.timestamp - PersistedSince(y) >= min_value_duration_minutes}}

CategoricalChanges ==
    {tr.transition_time : tr \in {r \in call.result : r.transition_type = "categorical_change"}}

\* No sample comes more than gap_threshold_minutes after the one before it.
Gapless ==
    \A x \in call.args.signals :
        \A y \in Before(x) : x.timestamp - y.timestamp <= gap_threshold_minutes

\* C36: the categorical detector emits a categorical_change exactly when the value
\* differs from the previous non-empty value and the previous value persisted for at
\* least min_value_duration minutes; for asleep_core (40 min), asleep_rem (25 min),
\* awake (5 min), asleep_core (30 min) it emits three of them, in order.
C36_CategoricalChanges ==
    SleepReturned =>
        /\ CategoricalChanges = LastingChanges
        /\ call \in {[c EXCEPT !.done = TRUE, !.result = call.result] : c \in SleepExampleCalls}
               => CategoricalChanges = {40, 65, 70}

\* The part of C36 that holds: the rule, and the three transitions of the example,
\* for samples with no gap above gap_threshold_minutes between them.
GaplessCategoricalChanges ==
    (SleepReturned /\ Gapless) =>
        /\ CategoricalChanges = LastingChanges
        /\ call \in {[c EXCEPT !.done = TRUE, !.result = call.result] : c \in SleepExampleCalls}
               => CategoricalChanges = {40, 65, 70}

\* What the code does with the example stored one row for each stage: the first
\* stage lasts longer than the gap threshold, a data_gap is emitted at its row and
\* the change that follows is lost.
StagesAsRowsGiveTwo ==
    (SleepReturned /\ {x.timestamp : x \in call.args.signals} = {0, 40, 65, 70}
                   /\ call.args.end_time = 100)
        => /\ CategoricalChanges = {65, 70}
           /\ \E tr \in call.result : tr.transition_type = "data_gap" /\ tr.transition_time = 0

CalendarReturned == call.fn = "calendar_detect" /\ call.done

\* The start and the end boundary of the event of row r.
StartOf(r, confidence) ==
    Transition(FromIsoFormat(r.source_metadata.start), "changepoint", 1, "increase", confidence)

EndOf(r, confidence) ==
    Transition(FromIsoFormat(r.source_metadata.end), "changepoint", 1, "decrease", confidence)

\* The confidence of a boundary by the status of its event.
ByStatus(r) ==
    IF r.source_metadata.response_status = "tentative" THEN 70
    ELSE IF r.source_metadata.response_status = "needsAction" THEN 60
    ELSE 98

\* The event of row r lies in the window of the call.
EventInWindow(r) ==
    /\ call.args.start_time <= DbTimestamp(FromIsoFormat(r.source_metadata.start))
    /\ DbTimestamp(FromIsoFormat(r.source_metadata.end)) <= call.args.end_time

\* C37: every event-boundary transition of a calendar event has confidence 0.98,
\* 0.7 when the event is tentative and 0.6 when it is needs-action; for a confirmed
\* event both its start and its end changepoint are emitted, with confidence >= 0.95.
C37_BoundaryConfidenceByStatus ==
    CalendarReturned =>
        /\ \A tr \in call.result.transitions :
               \E r \in call.args.rows : tr \in {StartOf(r, ByStatus(r)), EndOf(r, ByStatus(r))}
        /\ \A r \in call.args.rows :
               (ByStatus(r) = 98 /\ EventInWindow(r))
                   => \E c1, c2 \in {c \in 0..100 : c >= 95} :
                          {StartOf(r, c1), EndOf(r, c2)} \subseteq call.result.transitions

\* What the code does: every boundary it returns has confidence 0.98, whatever the
\* status of its event.
EveryBoundaryAt98 ==
    CalendarReturned =>
        \A tr \in call.result.transitions :
            \E r \in call.args.rows : tr \in {StartOf(r, 98), EndOf(r, 98)}

\* Both boundaries of an event are returned when the call returns and both wall
\* clock times lie in the window.
BoundariesInWindowReturned ==
    (CalendarReturned /\ ~ call.result.raised) =>
        \A r \in call.args.rows :
            LET st == FromIsoFormat(r.source_metadata.start).wall
                en == FromIsoFormat(r.source_metadata.end).wall
            IN  (call.args.start_time <= st /\ en <= call.args.end_time)
                    => {StartOf(r, 98), EndOf(r, 98)} \subseteq call.result.transitions

AnyDetectorReturned ==
    call.fn \in {"detect_transitions", "calendar_detect", "sleep_detect"} /\ call.done

\* The transitions a finished call returned (none when it raised).
Returned ==
    IF call.fn = "calendar_detect" THEN call.result.transitions ELSE call.result

\* The min_confidence of the detector that was called.
DetectorMinConfidence ==
    IF call.fn = "calendar_detect" THEN calendar_min_confidence
    ELSE IF call.fn = "sleep_detect" THEN sleep_min_confidence
    ELSE audio_min_confidence

\* The instant of a returned transition: the UTC time of an aware datetime.
TransitionInstant(tr) ==
    IF call.fn = "calendar_detect" THEN DbTimestamp(tr.transition_time)
    ELSE tr.transition_time

\* C16: no detector returns a transition whose confidence is below the detector's
\* min_confidence.
C16_BelowMinConfidenceDropped ==
    AnyDetectorReturned => \A tr \in Returned : tr.confidence >= DetectorMinConfidence

\* The detectors that end with validate_transitions or their own filter do drop them.
FilteringDetectorsDrop ==
    (AnyDetectorReturned /\ call.fn # "sleep_detect")
        => \A tr \in Returned : tr.confidence >= DetectorMinConfidence

\* C17: every transition a detector returns has its transition_time inside the
\* requested window [start_time, end_time].
C17_ReturnedInsideWindow ==
    AnyDetectorReturned =>
        \A tr \in Returned : /\ call.args.start_time <= TransitionInstant(tr)
                             /\ TransitionInstant(tr) <= call.args.end_time

\* The detectors other than the calendar's return transitions inside the window.
OtherDetectorsInsideWindow ==
    (AnyDetectorReturned /\ call.fn # "calendar_detect")
        => \A tr \in Returned : /\ call.args.start_time <= TransitionInstant(tr)
                                /\ TransitionInstant(tr) <= call.args.end_time

----------------------------------------------------------------------------
(* sources/google/calendar/sync.py: one sync of the calendar stream.  Page      *)
(* tokens are page numbers, 1 for the first page; "" is no sync token.          *)

\* The calendars list_calendars returns, in its order.
Calendars == <<"primary", "work">>

CalendarIds == {Calendars[i] : i \in DOMAIN Calendars}

\* The pages the upstream answers a listing with.  "page" carries events and a
\* nextPageToken, "last" events and a nextSyncToken, "empty" only a nextSyncToken,
\* "last_no_token" only events; "gone", "not_found" and "server_error" are the
\* HTTP errors 410, 404 and 500.
TokenResponses ==
    {<<"last">>, <<"empty">>, <<"page", "last">>, <<"gone">>, <<"page", "gone">>,
     <<"not_found">>, <<"server_error">>}

FullResponses ==
    {<<"last">>, <<"page", "last">>, <<"last_no_token">>, <<"not_found">>,
     <<"page", "server_error">>, <<"gone">>}

\* The answers of one calendar; a calendar without stored token is never asked with one.
Upstreams(existing) ==
    {u \in [CalendarIds -> [token : TokenResponses, full : FullResponses]] :
        \A c \in CalendarIds : existing[c] = "" => u[c].token = <<"last">>}

\* client.list_events: the answer to one request.
list_events(upstream, calendar_id, sync_token, page_token) ==
    (IF sync_token # "" THEN upstream[calendar_id].token
     ELSE upstream[calendar_id].full)[page_token]

SyncError(calendar_id, type) == [calendar_id |-> calendar_id, type |-> type]

\* The loops' state: stats, the new sync tokens, and the requests sent so far.
SyncLoopStart ==
    [stats |-> [events_processed |-> 0, calendars_synced |-> 0, errors |-> <<>>],
     calendar_sync_tokens |-> [c \in CalendarIds |-> ""],
     requests |-> <<>>]

ErrorDropped(acc, calendar_id, type) == acc

\* stats["errors"].append({"calendar_id": ..., "type": ...})
AppendError(acc, calendar_id, type) ==
    [acc EXCEPT !.stats.errors = Append(@, SyncError(calendar_id, type))]

\* while True: one calendar's pages.
RECURSIVE PageLoop(_, _, _, _, _)
PageLoop(upstream, calendar_id, use_sync_token, page_token, acc) ==
    LET result == list_events(upstream, calendar_id, use_sync_token, page_token)
        sent == [acc EXCEPT !.requests =
                     Append(@, [calendar_id |-> calendar_id, sync_token |-> use_sync_token,
                                page_token |-> page_token])]
        counted == IF result = "empty" THEN sent
                   ELSE [sent EXCEPT !.stats.events_processed = @ + 1]
    IN  IF result = "gone" /\ use_sync_token # ""
        THEN PageLoop(upstream, calendar_id, "", 1,
                      AppendError(sent, calendar_id, "sync_token_expired"))
        ELSE IF result = "not_found" THEN AppendError(sent, calendar_id, "calendar_not_found")
        ELSE IF result \in {"gone", "server_error"}
             THEN AppendError(sent, calendar_id, "http_error")
        ELSE IF result = "page"
             THEN PageLoop(upstream, calendar_id, use_sync_token, page_token + 1, counted)
        ELSE IF result \in {"last", "empty"}
             THEN [counted EXCEPT !.calendar_sync_tokens[calendar_id] = "new"]
        ELSE counted

\* for calendar in calendars
RECURSIVE CalendarLoop(_, _, _, _, _)
CalendarLoop(upstream, selected_calendar_ids, existing_sync_tokens, i, acc) ==
    IF i > Len(Calendars) THEN acc
    ELSE CalendarLoop(upstream, selected_calendar_ids, existing_sync_tokens, i + 1,
             IF Calendars[i] \notin selected_calendar_ids THEN acc
             ELSE PageLoop(upstream, Calendars[i], existing_sync_tokens[Calendars[i]], 1,
                           [acc EXCEPT !.stats.calendars_synced = @ + 1]))

\* _run_sync after list_calendars: the stats it returns, and the requests it sent.
_run_sync(upstream, selected_calendar_ids, existing_sync_tokens) ==
    LET acc == CalendarLoop(upstream, selected_calendar_ids, existing_sync_tokens, 1,
                            SyncLoopStart)
        all_sync_tokens == [c \in CalendarIds |->
                               IF acc.calendar_sync_tokens[c] # ""
                               THEN acc.calendar_sync_tokens[c]
                               ELSE existing_sync_tokens[c]]
    IN  [stats |-> [events_processed |-> acc.stats.events_processed,
                    calendars_synced |-> acc.stats.calendars_synced,
                    errors |-> acc.stats.errors,
                    stored |-> acc.stats.events_processed > 0,
                    next_sync_token |-> all_sync_tokens],
         requests |-> acc.requests]

fetch_data(upstream, selected_calendar_ids, existing_sync_tokens) ==
    _run_sync(upstream, selected_calendar_ids, existing_sync_tokens)

\* The parent class's run(): the syncer's Run returns its statistics.
run(upstream, selected_calendar_ids, existing_sync_tokens) ==
    fetch_data(upstream, selected_calendar_ids, existing_sync_tokens)

\* The calls: the answer to list_calendars, the selection, the stored tokens, and
\* the answers to list_events.  A failed list_calendars ends the sync at once.
CalendarSyncCalls ==
    UNION {{Call("sync_stream", [calendar_list |-> "ok", selected |-> sel, existing |-> ex,
                                 upstream |-> u]) :
               sel \in SUBSET CalendarIds, u \in Upstreams(ex)} :
           ex \in [CalendarIds -> {"", "old"}]}
    \cup {Call("sync_stream", [calendar_list |-> "server_error", selected |-> CalendarIds,
                               existing |-> [c \in CalendarIds |-> ""],
                               upstream |-> [c \in CalendarIds |->
                                                [token |-> <<"last">>, full |-> <<"last">>]]])}

\* store_raw_data is called once, when the sync collected at least one event.
RawBatchesWritten(stats) == IF stats.stored THEN 1 ELSE 0

\* The stream's sync_token after sync_stream's commit: the UPDATE of stream_configs
\* sets last_ingestion_at and updated_at only, so it is the one that was there.
StoredSyncToken(existing_sync_tokens, stats) == existing_sync_tokens

\* The process_stream_batch messages sent for the batches of the run: neither
\* _run_sync ("For now, just pass") nor sync_stream sends any.
BatchTasksSent(stats) == 0

\* sync_stream of the calendar stream from sync.run() to the commit that closes the
\* pipeline_activities row.
SyncCalendarStream ==
    /\ call.fn = "sync_stream"
    /\ ~ call.done
    /\ LET out == run(call.args.upstream, call.args.selected, call.args.existing)
       IN  call' = [call EXCEPT
               !.done = TRUE,
               !.result = IF call.args.calendar_list = "ok"
                          THEN [status |-> "completed",
                                records_processed |-> out.stats.events_processed,
                                activity_metadata |-> out.stats,
                                requests |-> out.requests,
                                sync_token |-> StoredSyncToken(call.args.existing, out.stats),
                                raw_batches |-> RawBatchesWritten(out.stats),
                                process_stream_batch |-> BatchTasksSent(out.stats)]
                          ELSE [status |-> "failed", records_processed |-> 0,
                                activity_metadata |-> SyncLoopStart.stats,
                                requests |-> <<>>,
                                sync_token |-> call.args.existing,
                                raw_batches |-> 0,
                                process_stream_batch |-> 0]]
    /\ UNCHANGED notCall

----------------------------------------------------------------------------
(* Claims about the calendar sync *)

SyncReturned == call.fn = "sync_stream" /\ call.done

SyncRequests == {call.result.requests[k] : k \in DOMAIN call.result.requests}

SyncErrors ==
    {call.result.activity_metadata.errors[k] :
        k \in DOMAIN call.result.activity_metadata.errors}

SyncCompleted == SyncReturned /\ call.result.status = "completed"

\* The syncer returned a cursor that differs from the one the stream had.
FreshCursor == call.result.activity_metadata.next_sync_token # call.args.existing

\* C29: after a successful sync_stream run exactly one process_stream_batch task is
\* enqueued for each raw batch the syncer wrote to the object store.
C29_OneBatchTaskPerWrittenBatch ==
    SyncCompleted => call.result.process_stream_batch = call.result.raw_batches

\* What the code does: a run writes at most one raw batch and sends no task for it.
NoBatchTaskSent ==
    SyncCompleted
        => /\ call.result.process_stream_batch = 0
           /\ call.result.raw_batches = (IF call.result.records_processed > 0 THEN 1 ELSE 0)

\* C30: after a successful sync_stream run in which the syncer returned a fresh
\* cursor, the stream's stored cursor equals that cursor.
C30_FreshCursorStored ==
    (SyncCompleted /\ FreshCursor)
        => call.result.sync_token = call.result.activity_metadata.next_sync_token

\* What the code does: the stream's cursor is the one it had before the run, and the
\* fresh one is only written into the activity_metadata of the audit row.
CursorLeftAsItWas ==
    SyncCompleted => call.result.sync_token = call.args.existing

\* The upstream's answer to a request the sync sent.
Answer(r) == list_events(call.args.upstream, r.calendar_id, r.sync_token, r.page_token)

\* The calendars whose listing failed, a 410 on a stored token apart.
FailedCalendars ==
    {c \in CalendarIds :
        \E r \in SyncRequests :
            /\ r.calendar_id = c
            /\ \/ Answer(r) \in {"not_found", "server_error"}
               \/ Answer(r) = "gone" /\ r.sync_token = ""}

\* The calendars whose stored token the upstream answered with 410.
ExpiredCalendars ==
    {c \in CalendarIds :
        \E r \in SyncRequests : r.calendar_id = c /\ r.sync_token # "" /\ Answer(r) = "gone"}

\* A calendar's listing was followed to a page without successor.
ListedToEnd(c) ==
    \E r \in SyncRequests : r.calendar_id = c /\ Answer(r) # "page"

FullSyncs(c) ==
    {k \in DOMAIN call.result.requests :
        /\ call.result.requests[k].calendar_id = c
        /\ call.result.requests[k].sync_token = ""
        /\ call.result.requests[k].page_token = 1}

\* The stored token is not handed back for the next run.
CursorDiscarded(c) ==
    call.result.activity_metadata.next_sync_token[c] # call.args.existing[c]

\* One full sync follows the 410, the token is not sent again, and the metadata
\* tell of the expiry.
FallsBackOnce(c) ==
    /\ Cardinality(FullSyncs(c)) = 1
    /\ \A k \in FullSyncs(c) : \A j \in DOMAIN call.result.requests :
           (j > k /\ call.result.requests[j].calendar_id = c)
               => call.result.requests[j].sync_token = ""
    /\ Cardinality({k \in DOMAIN call.result.activity_metadata.errors :
                       call.result.activity_metadata.errors[k]
                           = SyncError(c, "sync_token_expired")}) = 1

\* C20: when the upstream answers a calendar's stored sync token with 410, the sync
\* discards the token, falls back to a full sync exactly once for that calendar,
\* and records the expiry in the audit metadata.
C20_ExpiredCursorDiscarded ==
    SyncReturned => \A c \in ExpiredCalendars : CursorDiscarded(c) /\ FallsBackOnce(c)

\* What holds of an expired token: one fallback and the record, always; a new token
\* in place of the old one when the fallback reaches a nextSyncToken.
ExpiredCursorFallsBackOnce ==
    SyncReturned => \A c \in ExpiredCalendars : FallsBackOnce(c)

ExpiredCursorReplacedByCompleteFallback ==
    SyncReturned =>
        \A c \in ExpiredCalendars :
            call.args.upstream[c].full \in {<<"last">>, <<"page", "last">>}
                => CursorDiscarded(c)

----------------------------------------------------------------------------
(* sources/base/scheduler/tasks/sync_sources.py: the OAuth tokens of the sources *)
(* table.  Times are hours; the provider's tokens are numbered as it issues them. *)

MaxTokens == 2        \* tokens the provider issues to one source

SourceNames == {"google", "notion"}

expiry_threshold_hours == 1

default_expires_in == 1

SourceRow(access, refresh, expires, active) ==
    [oauth_access_token |-> access, oauth_refresh_token |-> refresh,
     oauth_expires_at |-> expires, is_active |-> active]

NoRefresh == [task |-> "none", at |-> 0, before |-> <<>>, source |-> "none", ok |-> FALSE]

NoSources == [s \in SourceNames |-> SourceRow(1, NULL, NULL, TRUE)]

TokensStart(tab) ==
    /\ sources = tab
    /\ lastRefresh = NoRefresh

\* The rows refresh_expiring_tokens selects.
ExpiringSources(tab, at) ==
    {s \in SourceNames : /\ tab[s].oauth_expires_at # NULL
                         /\ tab[s].oauth_expires_at < at + expiry_threshold_hours
                         /\ tab[s].oauth_refresh_token # NULL
                         /\ tab[s].is_active}

\* The task selects the expiring sources and logs a warning for each.
refresh_expiring_tokens ==
    /\ lastRefresh' = [task |-> "refresh_expiring_tokens", at |-> now, before |-> sources,
                       source |-> "none", ok |-> TRUE]
    /\ UNCHANGED sources
    /\ UNCHANGED notTokens

\* The refresher sync_stream hands to the client, called on a 401: the provider
\* answers with an access token, perhaps a refresh token, perhaps expires_in, or fails.
token_refresher ==
    \E s \in SourceNames : \E ok, rotated \in BOOLEAN : \E expires_in \in {default_expires_in, 2} :
        /\ sources[s].oauth_refresh_token # NULL
        /\ sources[s].is_active
        /\ sources[s].oauth_access_token < MaxTokens
        /\ lastRefresh' = [task |-> "token_refresher", at |-> now, before |-> sources,
                           source |-> s, ok |-> ok]
        /\ sources' = IF ok
                      THEN [sources EXCEPT ![s] =
                               SourceRow(@.oauth_access_token + 1,
                                         IF rotated THEN @.oauth_refresh_token + 1
                                         ELSE @.oauth_refresh_token,
                                         now + expires_in, @.is_active)]
                      ELSE sources
        /\ UNCHANGED notTokens

TokenNext ==
    \/ Tick
    \/ refresh_expiring_tokens
    \/ token_refresher

----------------------------------------------------------------------------
(* Claims about token refresh *)

ProactiveRefreshRan == lastRefresh.task = "refresh_expiring_tokens"

\* A row whose three token columns were replaced in one UPDATE at the time at.
RefreshedTogether(before, after, at) ==
    /\ after.oauth_access_token # before.oauth_access_token
    /\ after.oauth_refresh_token # NULL
    /\ after.oauth_expires_at # NULL
    /\ after.oauth_expires_at > at

\* C21: when refresh_expiring_tokens has run, every active source whose token expired
\* less than one hour after the run's start (and that has a refresh token) has a new
\* access token and a new expires_at, its refresh token kept or replaced.
C21_ExpiringTokensRefreshed ==
    ProactiveRefreshRan =>
        \A s \in ExpiringSources(lastRefresh.before, lastRefresh.at) :
            RefreshedTogether(lastRefresh.before[s], sources[s], lastRefresh.at)

\* What the task does: nothing to the table.
ProactiveRefreshChangesNothing ==
    ProactiveRefreshRan => sources = lastRefresh.before

\* The refresher of a running sync does replace the three columns together.
TokenRefresherUpdatesTogether ==
    (lastRefresh.task = "token_refresher" /\ lastRefresh.ok)
        => /\ RefreshedTogether(lastRefresh.before[lastRefresh.source],
                                sources[lastRefresh.source], lastRefresh.at)
           /\ \A s \in SourceNames \ {lastRefresh.source} : sources[s] = lastRefresh.before[s]

----------------------------------------------------------------------------
(* sources/notion/pages/stream_processor.py and its loading by process_stream_generic *)

MaxVersions == 2      \* versions a semantic document has before the batch

SemanticRow(id, semantic_id, content_hash, version, is_latest) ==
    [id |-> id, source_name |-> "notion", semantic_id |-> semantic_id,
     content_hash |-> content_hash, version |-> version, is_latest |-> is_latest]

\* A raw notion_pages batch: data.id and metadata.content_hash ("" is an absent key).
Page(id, content_hash) == [id |-> id, content_hash |-> content_hash]

ContentHash(v) == "h" \o ToString(v)

NotionPages ==
    {Page(i, h) : i \in {"p1", "p2", ""},
                  h \in {ContentHash(v) : v \in 1..(MaxVersions + 1)} \cup {""}}

\* The rows of a document that went through k versions.
History(semantic_id, base, k) ==
    {SemanticRow(base + v, semantic_id, ContentHash(v), v, v = k) : v \in 1..k}

SemanticsTables ==
    {History("p1", 0, a) \cup History("p2", MaxVersions, b) : a, b \in 0..MaxVersions}

\* str(uuid4()): an id no row has.
FreshSemanticId(tab) ==
    1 + (IF tab = {} THEN 0 ELSE CHOOSE n \in {r.id : r \in tab} : \A r \in tab : r.id <= n)

LatestSemantic(tab, semantic_id) ==
    {r \in tab : r.source_name = "notion" /\ r.semantic_id = semantic_id /\ r.is_latest}

\* NotionPagesStreamProcessor.process(stream_data, db).
NotionProcess(tab, page) ==
    IF page.id = "" THEN tab
    ELSE IF LatestSemantic(tab, page.id) = {}
    THEN tab \cup {SemanticRow(FreshSemanticId(tab), page.id, page.content_hash, 1, TRUE)}
    ELSE LET existing == CHOOSE r \in LatestSemantic(tab, page.id) : TRUE
         IN  IF existing.content_hash # page.content_hash
             THEN (tab \ {existing})
                      \cup {[existing EXCEPT !.is_latest = FALSE]}
                      \cup {SemanticRow(FreshSemanticId(tab), page.id, page.content_hash,
                                        existing.version + 1, TRUE)}
             ELSE tab

\* The classes each processor module defines and the parameters their process takes
\* besides self.
ProcessorModules ==
    [google_calendar |-> [classes |-> {"StreamProcessor"}, params |-> 3],
     notion_pages |-> [classes |-> {"NotionPagesStreamProcessor"}, params |-> 2]]

\* The tail of process_stream_generic: the class is looked up by the name
\* 'StreamProcessor' (ValueError when the module has none) and called as
\* process(stream_data, signal_configs, db).
ProcessorLoads(stream_name) ==
    /\ "StreamProcessor" \in ProcessorModules[stream_name].classes
    /\ ProcessorModules[stream_name].params = 3

SemanticCalls ==
    {Call("process_stream_generic", [semantics |-> tab, page |-> page]) :
        tab \in SemanticsTables, page \in NotionPages}

\* process_stream_generic on one notion_pages batch.
ProcessNotionBatch ==
    /\ call.fn = "process_stream_generic"
    /\ ~ call.done
    /\ call' = [call EXCEPT
           !.done = TRUE,
           !.result = IF ProcessorLoads("notion_pages")
                      THEN [raised |-> FALSE,
                            semantics |-> NotionProcess(call.args.semantics, call.args.page)]
                      ELSE [raised |-> TRUE, semantics |-> call.args.semantics]]
    /\ UNCHANGED notCall

SemanticProcessed == call.fn = "process_stream_generic" /\ call.done

\* What the claim asks of the table after a page was processed on the table before.
Versioned(before, page, after) ==
    LET existing == CHOOSE r \in LatestSemantic(before, page.id) : TRUE
    IN  IF existing.content_hash # page.content_hash
        THEN /\ after \ before =
                    {[existing EXCEPT !.is_latest = FALSE],
                     SemanticRow(FreshSemanticId(before), page.id, page.content_hash,
                                 existing.version + 1, TRUE)}
             /\ before \ after = {existing}
        ELSE after = before

\* C24: when a semantic document is processed whose content_hash differs from that of
\* the current latest row, that row is flipped to is_latest = false and a new row with
\* the previous version + 1 is inserted; when the hash is unchanged no row is written.
C24_ChangedHashAddsVersion ==
    (SemanticProcessed /\ LatestSemantic(call.args.semantics, call.args.page.id) # {})
        => Versioned(call.args.semantics, call.args.page, call.result.semantics)

\* What the code does instead: the notion_pages processor is never loaded, and the
\* semantics table is left as it was.
NotionBatchAlwaysRaises ==
    SemanticProcessed
        => call.result.raised /\ call.result.semantics = call.args.semantics

\* The processor class on its own, called with the two arguments it takes, versions
\* as the claim says.
NotionProcessorVersions ==
    (SemanticProcessed /\ LatestSemantic(call.args.semantics, call.args.page.id) # {})
        => Versioned(call.args.semantics, call.args.page,
                     NotionProcess(call.args.semantics, call.args.page))

----------------------------------------------------------------------------
(* The retries of the five tasks: sync_stream, process_stream_batch,               *)
(* run_single_signal_transition_detection, start_transition_detection and          *)
(* generate_events_hdbscan.  All are declared with autoretry_for=(Exception,) and   *)
(* retry_kwargs={'max_retries': 3}; none sets retry_backoff.                        *)

TaskKinds ==
    {"sync_stream", "process_stream_batch", "run_single_signal_transition_detection",
     "start_transition_detection", "generate_events_hdbscan"}

TaskFailures == {"transient", "unauthorized", "schema"}

\* A task message and the countdowns of the retries it has gone through.
RetriedTask(kind) ==
    [fn |-> kind, args |-> "none", done |-> FALSE, result |-> <<>>]

\* Task.retry as autoretry_for calls it: no countdown, hence default_retry_delay, and
\* no further retry once max_retries is used up.
AutoRetryCountdown(retries) ==
    IF retries + 1 > max_retries THEN NoRetry ELSE default_retry_delay

\* The countdown of the retry a failed execution leaves behind, or NoRetry.
\* sync_stream retries by hand with 60 * 2^retries when should_retry holds and
\* re-raises otherwise; generate_events_hdbscan catches the exception and returns
\* a result with success False, so Celery sees no failure; the others re-raise.
TaskRetryCountdown(kind, retries, failure) ==
    IF kind = "sync_stream"
    THEN RetryCountdown([retries |-> retries], error_message(failure))
    ELSE IF kind = "generate_events_hdbscan" THEN NoRetry
    ELSE AutoRetryCountdown(retries)

\* An execution of the task fails.
TaskFails ==
    \E failure \in TaskFailures :
        LET countdown == TaskRetryCountdown(call.fn, Len(call.result), failure)
        IN  /\ call.fn \in TaskKinds
            /\ ~ call.done
            /\ call' = [call EXCEPT !.args = failure,
                                    !.done = (countdown = NoRetry),
                                    !.result = IF countdown = NoRetry THEN @
                                               ELSE Append(@, countdown)]
            /\ UNCHANGED notCall

\* An execution of the task succeeds.
TaskSucceeds ==
    /\ call.fn \in TaskKinds
    /\ ~ call.done
    /\ call' = [call EXCEPT !.args = "none", !.done = TRUE]
    /\ UNCHANGED notCall

RetryNext == TaskFails \/ TaskSucceeds

TaskTracked == call.fn \in TaskKinds

\* Every delay is at least twice the one before it.
DelaysGrow(delays) ==
    \A i \in 1..(Len(delays) - 1) : delays[i + 1] >= 2 * delays[i]

\* C28: each task kind is retried on failure a bounded number of times, with an
\* exponentially increasing delay between successive attempts.
C28_BoundedExponentialRetries ==
    TaskTracked =>
        /\ Len(call.result) <= max_retries
        /\ DelaysGrow(call.result)
        /\ (call.done /\ call.args # "none") => Len(call.result) = max_retries

\* The part of C28 that holds: no task is retried more than max_retries times.
RetriesBounded == TaskTracked => Len(call.result) <= max_retries

\* What the code does: a task other than sync_stream is retried after the same
\* 180 s every time, the segmenter is never retried, and sync_stream doubles its
\* delay only from one retryable failure to the next.
RetryDelaysAsCoded ==
    TaskTracked =>
        /\ call.fn = "generate_events_hdbscan" => call.result = <<>>
        /\ call.fn \notin {"sync_stream", "generate_events_hdbscan"}
               => \A i \in DOMAIN call.result : call.result[i] = default_retry_delay
        /\ call.fn = "sync_stream"
               => \A i \in DOMAIN call.result :
                      call.result[i] \in {default_retry_delay, 60 * (2 ^ (i - 1))}

----------------------------------------------------------------------------
(* Specifications *)

IngestInit ==
    /\ \E enabled \in SUBSET MicSignals : IngestStart(enabled)
    /\ SyncStart([s \in Streams |-> TRUE])
    /\ DetectStart({}, {})
    /\ SegStart(NoHash)
    /\ TokensStart(NoSources)
    /\ CallStart(NoCall)
    /\ TasksStart(NoTasks)

SpecIngest == IngestInit /\ [][IngestNext]_vars

SyncInit ==
    /\ \E tokens \in [Streams -> BOOLEAN] : SyncStart(tokens)
    /\ IngestStart({})
    /\ DetectStart({}, {})
    /\ SegStart(NoHash)
    /\ TokensStart(NoSources)
    /\ CallStart(NoCall)
    /\ TasksStart(NoTasks)

SpecSync == SyncInit /\ [][SyncNext]_vars

\* The signals table before the batch: empty, or holding rows of every stream.
StoredBefore ==
    {Db({}, 0),
     HealthkitProcess(MicProcess(_process_events(Db({}, 0), <<"E1">>, CalendarSignals),
                                 <<"K1">>, MicSignals),
                      <<"H1">>, HealthkitSignals)}

GenericInit ==
    /\ \E db \in StoredBefore : IngestStartWith(db, {})
    /\ SyncStart([s \in Streams |-> TRUE])
    /\ DetectStart({}, {})
    /\ SegStart(NoHash)
    /\ TokensStart(NoSources)
    /\ CallStart(NoCall)
    /\ TasksStart(NoTasks)

SpecGeneric == GenericInit /\ [][process_stream_generic]_vars

DetectInit ==
    /\ \E rows \in SUBSET SampleTimes : DetectStart(rows, {})
    /\ \E b \in {<<>>, <<"E1">>, <<"E3">>} :
           IngestStartWith(_process_events(Db({}, 0), b, CalendarSignals), {})
    /\ SyncStart([s \in Streams |-> TRUE])
    /\ SegStart(NoHash)
    /\ TokensStart(NoSources)
    /\ CallStart(NoCall)
    /\ TasksStart(NoTasks)

SpecDetect == DetectInit /\ [][DetectNext]_vars

SegInit ==
    /\ \E h \in HashChoices : SegStart(h)
    /\ TokensStart(NoSources)
    /\ \E stored \in SUBSET TransitionPool :
           Cardinality(stored) <= MaxTransitions /\ DetectStart({}, stored)
    /\ IngestStart({})
    /\ SyncStart([s \in Streams |-> TRUE])
    /\ CallStart(NoCall)
    /\ TasksStart(NoTasks)

SpecSeg == SegInit /\ [][SegNext]_vars

EdgeInit ==
    /\ \E c \in EdgeCalls : CallStart(c)
    /\ IngestStart({})
    /\ SyncStart([s \in Streams |-> TRUE])
    /\ DetectStart({}, {})
    /\ SegStart(NoHash)
    /\ TokensStart(NoSources)
    /\ TasksStart(NoTasks)

SpecEdges == EdgeInit /\ [][EvalAllBoundaries]_vars

CronInit ==
    /\ \E c \in CronCalls : CallStart(c)
    /\ IngestStart({})
    /\ SyncStart([s \in Streams |-> TRUE])
    /\ DetectStart({}, {})
    /\ SegStart(NoHash)
    /\ TokensStart(NoSources)
    /\ TasksStart(NoTasks)

SpecCron == CronInit /\ [][EvalShouldSync]_vars

SemanticInit ==
    /\ \E c \in SemanticCalls : CallStart(c)
    /\ IngestStart({})
    /\ SyncStart([s \in Streams |-> TRUE])
    /\ DetectStart({}, {})
    /\ SegStart(NoHash)
    /\ TokensStart(NoSources)
    /\ TasksStart(NoTasks)

SpecSemantic == SemanticInit /\ [][ProcessNotionBatch]_vars

RetryInit ==
    /\ \E kind \in TaskKinds : CallStart(RetriedTask(kind))
    /\ IngestStart({})
    /\ SyncStart([s \in Streams |-> TRUE])
    /\ DetectStart({}, {})
    /\ SegStart(NoHash)
    /\ TokensStart(NoSources)
    /\ TasksStart(NoTasks)

SpecRetry == RetryInit /\ [][RetryNext]_vars

BatchInit ==
    /\ \E b1, b2 \in Batches(CalendarNames, MaxBatchLen) :
           TasksStart([w \in BatchWorkers |->
                          BatchTask(IF w = "b1" THEN b1 ELSE b2, "running")])
    /\ IngestStart({})
    /\ SyncStart([s \in Streams |-> TRUE])
    /\ DetectStart({}, {})
    /\ SegStart(NoHash)
    /\ TokensStart(NoSources)
    /\ CallStart(NoCall)

SpecBatch == BatchInit /\ [][BatchNext]_vars

DetectorInit ==
    /\ \E c \in DetectorCalls \cup MergeCalls \cup CalendarDetectorCalls
                  \cup SleepDetectorCalls \cup SleepExampleCalls : CallStart(c)
    /\ IngestStart({})
    /\ SyncStart([s \in Streams |-> TRUE])
    /\ DetectStart({}, {})
    /\ SegStart(NoHash)
    /\ TokensStart(NoSources)
    /\ TasksStart(NoTasks)

SpecDetector == DetectorInit /\ [][DetectorNext]_vars

CalendarSyncInit ==
    /\ \E c \in CalendarSyncCalls : CallStart(c)
    /\ IngestStart({})
    /\ SyncStart([s \in Streams |-> TRUE])
    /\ DetectStart({}, {})
    /\ SegStart(NoHash)
    /\ TokensStart(NoSources)
    /\ TasksStart(NoTasks)

SpecCalendarSync == CalendarSyncInit /\ [][SyncCalendarStream]_vars

TokenInit ==
    /\ \E tab \in [SourceNames -> {SourceRow(1, r, e, a) :
                                      r \in {NULL, 1}, e \in {NULL, 0, 1, 3}, a \in BOOLEAN}] :
           TokensStart(tab)
    /\ IngestStart({})
    /\ SyncStart([s \in Streams |-> TRUE])
    /\ DetectStart({}, {})
    /\ SegStart(NoHash)
    /\ CallStart(NoCall)
    /\ TasksStart(NoTasks)

SpecTokens == TokenInit /\ [][TokenNext]_vars

====
